---- MODULE Spec2Model ----
(***************************************************************************)
(* A model of the table recognition and extraction engine of getImages.py: *)
(* the candidate scanner (get_all_tables), the deduplicator, the native-   *)
(* table row extractor, the table assembler (extract_table_data and        *)
(* clean_dataframe), the title resolver, the run driver                    *)
(* (screenshot_tables) and the image pipeline (process_table_images),      *)
(* with the homogeneity check of rows, the rows of list items, the region  *)
(* capture and its crop box, and the extraction flag of the session of     *)
(* app.py.                                                                 *)
(*                                                                         *)
(* Text is modelled by atoms (TLA+ strings) and URLs by sequences of       *)
(* tokens, so that prefix tests and concatenations are computed.           *)
(***************************************************************************)
EXTENDS Integers, Sequences, FiniteSets, TLC

VARIABLES
    \* ---- row extraction and table assembly (extract_table_data) ----
    xPc,        \* "input" | "extracted" | "assembled"
    xType,      \* container['type'] of the element under extraction
    xTable,     \* the markup of the element (a native table)
    xHeaders,   \* headers returned by the row extractor
    xRows,      \* rows returned by the row extractor
    xSoupImg,   \* soup.find_all('img') is non-empty for the element
    xRec,       \* value returned by extract_table_data
    \* ---- image pipeline (process_table_images) ----
    iPc,        \* "idle" | "start" | "collect" | "done" | "raised"
    iUrl,       \* url: the address of the page
    iMarkup,    \* the markup the table record was extracted from
    iData,      \* table_data; .dataframe is the original frame
    iLocal,     \* table_data['dataframe_with_local_images'] (NoFrame: unset)
    iDf,        \* df: the copy the results are written to
    iFutures,   \* futures, in the order of submission
    iLocs,      \* cell_locations
    iNext,      \* number of futures whose result has been applied
    iProcessed, \* processed
    iArrived    \* the futures that are done, in the order they finished

xVars == <<xPc, xType, xTable, xHeaders, xRows, xSoupImg, xRec>>

iVars == <<iPc, iUrl, iMarkup, iData, iLocal, iDf, iFutures, iLocs, iNext, iProcessed,
           iArrived>>

\* the page, the scanner and one run of screenshot_tables
VARIABLES page, sPc, driver, all_containers, deduplicated_containers, sorted_containers,
          idx, tables_info, files, log, result

sVars == <<page, sPc, driver, all_containers, deduplicated_containers, sorted_containers,
           idx, tables_info, files, log, result>>

\* two runs of the title resolver and the extractor on one element
VARIABLES tInfo, tTable, tRuns

tVars == <<tInfo, tTable, tRuns>>

\* one call of a function of the engine on its own
VARIABLES
    fPc,        \* "idle" | "call" | "returned"
    fArgs,      \* the arguments of the call
    fRet        \* the value returned

fVars == <<fPc, fArgs, fRet>>

\* one call of capture_element_screenshot
VARIABLES
    cPc,        \* "idle" | "start" | "scrolled" | "styled" | "fallback" |
                \* "last_resort" | "true" | "false"
    cStyle,     \* the styles of the element ([1]) and of its ancestors
    cBefore     \* the styles when the call began

cVars == <<cPc, cStyle, cBefore>>

\* the session of the Streamlit application (app.py)
VARIABLES
    aPc,                     \* "idle" | "ready" (the script run is over and
                             \* the page waits for the user) | "working"
    extraction_in_progress,  \* st.session_state.extraction_in_progress
    data_extracted,          \* st.session_state.data_extracted
    extraction_method,       \* st.session_state.extraction_method
    aDone                    \* the ways the extractions so far have ended

aVars == <<aPc, extraction_in_progress, data_extracted, extraction_method, aDone>>

\* the components that are not part of a run
oVars == <<fVars, cVars, aVars>>

vars == <<xPc, xType, xTable, xHeaders, xRows, xSoupImg, xRec,
          iPc, iUrl, iMarkup, iData, iLocal, iDf, iFutures, iLocs, iNext, iProcessed,
          iArrived,
          page, sPc, driver, all_containers, deduplicated_containers, sorted_containers,
          idx, tables_info, files, log, result,
          tInfo, tTable, tRuns,
          fPc, fArgs, fRet,
          cPc, cStyle, cBefore,
          aPc, extraction_in_progress, data_extracted, extraction_method, aDone>>

----------------------------------------------------------------------------
(* Generic helpers                                                          *)

Range(s) == {s[i] : i \in DOMAIN s}

SeqsUpTo(S, n) == UNION {[1..k -> S] : k \in 0..n}

SeqsFromTo(S, m, n) == UNION {[1..k -> S] : k \in m..n}

Max2(a, b) == IF a >= b THEN a ELSE b

Min2(a, b) == IF a <= b THEN a ELSE b

RECURSIVE Repeat(_, _)
Repeat(x, n) == IF n <= 0 THEN <<>> ELSE <<x>> \o Repeat(x, n - 1)

RECURSIVE Flatten(_)
Flatten(ss) == IF ss = <<>> THEN <<>> ELSE Head(ss) \o Flatten(Tail(ss))

\* the subsequence of s at the indices that satisfy keep, in order
RECURSIVE SelectIdx(_, _, _)
SelectIdx(s, keep, i) ==
    IF i > Len(s) THEN <<>>
    ELSE (IF keep[i] THEN <<s[i]>> ELSE <<>>) \o SelectIdx(s, keep, i + 1)

StartsWith(s, p) == Len(s) >= Len(p) /\ SubSeq(s, 1, Len(p)) = p

----------------------------------------------------------------------------
(* URLs: sequences of tokens                                                *)

SlashSlash == <<"/", "/">>
HttpPrefix == <<"http:", "/", "/">>
HttpsPrefix == <<"https:", "/", "/">>

UrlRootRel == <<"/", "img", "/", "a.png">>
UrlProtoRel == <<"/", "/", "cdn.test", "/", "x.png">>
UrlRel == <<"img", "/", "b.png">>
UrlDotRel == <<"..", "/", "c.png">>
UrlAbsHttps == <<"https:", "/", "/", "cdn.test", "/", "l.png">>
UrlAbsHttp == <<"http:", "/", "/", "cdn.test", "/", "m.png">>
UrlData == <<"data:", "AAA">>
NoUrl == <<>>

----------------------------------------------------------------------------
(* Cell text                                                                *)

\* cell.get_text(strip=True) followed by clean_text: whitespace is collapsed
\* and the ends are trimmed.  " " and " A " are the raw texts of the model
\* that the conversion changes.
clean_text(t) ==
    CASE t = " " -> ""
      [] t = " A " -> "A"
      [] OTHER -> t

\* A cell of an extracted row: text, an image reference, or the None that
\* pandas puts where a row is shorter than the frame is wide.
\* After the image pipeline a cell can also be the text "Image: <path>" or
\* the text "Image URL: <url> (download failed: <reason>)".
NoPath == [domain |-> "", title |-> "", index |-> 0, ext |-> ""]

TextCell(t) == [k |-> "text", v |-> t, src |-> NoUrl, path |-> NoPath]
ImgCell(u) == [k |-> "img", v |-> "", src |-> u, path |-> NoPath]
NoneCell == [k |-> "none", v |-> "", src |-> NoUrl, path |-> NoPath]
LocalCell(f) == [k |-> "local", v |-> "", src |-> NoUrl, path |-> f]
FailedCell(u, reason) == [k |-> "failed", v |-> reason, src |-> u, path |-> NoPath]

\* str(cell).strip() is non-empty
NonBlank(c) == c.k # "text" \/ c.v # ""

----------------------------------------------------------------------------
(* Native tables: extract_html_table_data                                   *)

\* int(colspan_attr) for the attribute values of the model; "x" and "2.5"
\* raise ValueError.
IsIntLiteral(a) == a \in {"-1", "0", "1", "2", "3"}

IntOf(a) ==
    CASE a = "-1" -> -1
      [] a = "0" -> 0
      [] a = "1" -> 1
      [] a = "2" -> 2
      [] a = "3" -> 3

\* colspan of a cell; "" stands for an absent (or empty) attribute
ColspanMutNoExpand(cell) == 1

Colspan(cell) ==
    IF cell.colspan = "" THEN 1
    ELSE IF IsIntLiteral(cell.colspan) THEN IntOf(cell.colspan)
    ELSE 1

\* img_src after the "//" fix of the row extractors
FixImgSrc(src) == IF StartsWith(src, SlashSlash) THEN <<"https:">> \o src ELSE src

\* the value a td/th contributes: an image reference when it holds an img
\* with a non-empty src, its cleaned text otherwise
CellValue(cell) ==
    IF cell.img /\ FixImgSrc(cell.src) # NoUrl
    THEN ImgCell(FixImgSrc(cell.src))
    ELSE TextCell(clean_text(cell.text))

\* for _ in range(colspan): row.append(value)
ExpandCell(cell) == Repeat(CellValue(cell), Colspan(cell))

FlattenRow(tr) == Flatten([i \in DOMAIN tr |-> ExpandCell(tr[i])])

CellTexts(tr) == [i \in DOMAIN tr |-> clean_text(tr[i].text)]

HasTh(tr) == \E i \in DOMAIN tr : tr[i].tag = "th"

\* table.find_all('tr') in document order: the rows of thead, then the body
AllTr(t) == t.thead \o t.body

\* headers: last row of thead, else a first row with a th, else a first
\* tbody row with a th
HtmlHeaders(t) ==
    LET h1 == IF t.thead # <<>> THEN CellTexts(t.thead[Len(t.thead)]) ELSE <<>>
        h2 == IF h1 # <<>> THEN h1
              ELSE IF AllTr(t) # <<>> /\ HasTh(AllTr(t)[1])
                   THEN CellTexts(AllTr(t)[1]) ELSE <<>>
    IN  IF h2 # <<>> THEN h2
        ELSE IF t.body # <<>> /\ HasTh(t.body[1]) THEN CellTexts(t.body[1])
        ELSE <<>>

\* The two "skip" tests of the row loop.  BeautifulSoup compares tags by
\* name, attributes and contents, so "tr == table.find('tr')" and
\* "tr in thead.find_all('tr')" hold for every row that looks like that row.
SkipRow(t, headers, tr) ==
    \/ headers # <<>> /\ tr = AllTr(t)[1] /\ HasTh(tr)
    \/ \E k \in DOMAIN t.thead : t.thead[k] = tr

RowKept(row) == row # <<>> /\ \E i \in DOMAIN row : NonBlank(row[i])

RECURSIVE HtmlRowsFrom(_, _, _)
HtmlRowsFrom(t, headers, i) ==
    IF i > Len(t.body) THEN <<>>
    ELSE LET tr == t.body[i]
             row == FlattenRow(tr)
         IN  (IF ~SkipRow(t, headers, tr) /\ RowKept(row) THEN <<row>> ELSE <<>>)
             \o HtmlRowsFrom(t, headers, i + 1)

extract_html_table_data(t) ==
    [headers |-> HtmlHeaders(t), rows |-> HtmlRowsFrom(t, HtmlHeaders(t), 1)]

\* soup.find_all('img') is non-empty
MarkupHasImg(t) ==
    \E r \in DOMAIN AllTr(t) : \E i \in DOMAIN AllTr(t)[r] : AllTr(t)[r][i].img

----------------------------------------------------------------------------
(* Rows of a list: extract_list_table_data                                  *)

(* The text of a list item is a sequence of characters; " " is white space. *)

\* the characters of r'[|,;:]'
Delimiters == {"|", ",", ";", ":"}

\* str.strip()
RECURSIVE StripLeft(_)
StripLeft(text) ==
    IF text # <<>> /\ Head(text) = " " THEN StripLeft(Tail(text)) ELSE text

RECURSIVE StripRight(_)
StripRight(text) ==
    IF text # <<>> /\ text[Len(text)] = " "
    THEN StripRight(SubSeq(text, 1, Len(text) - 1))
    ELSE text

Strip(text) == StripRight(StripLeft(text))

\* re.sub(r'\s+', ' ', text)
RECURSIVE CollapseSpace(_)
CollapseSpace(text) ==
    IF Len(text) < 2 THEN text
    ELSE IF text[1] = " " /\ text[2] = " " THEN CollapseSpace(Tail(text))
    ELSE <<text[1]>> \o CollapseSpace(Tail(text))

\* clean_text (lines 550-570) on a sequence of characters
CleanChars(text) == Strip(CollapseSpace(text))

\* re.split(r'[|,;:]', text): the pieces between the delimiters, the empty
\* ones included; part is the piece that is being read
RECURSIVE ReSplit(_, _)
ReSplit(text, part) ==
    IF text = <<>> THEN <<part>>
    ELSE IF Head(text) \in Delimiters THEN <<part>> \o ReSplit(Tail(text), <<>>)
    ELSE ReSplit(Tail(text), Append(part, Head(text)))

\* lines 370-426: the row of a list item with so many span, div and a
\* elements inside, the given text, and an img with a src or none.  The
\* text of a child element is "c", an image cell is "<img>"
ListItemRow(item) ==
    LET text == Strip(item.text)
        parts == ReSplit(text, <<>>)
        split == IF Len(parts) > 1
                 THEN [k \in DOMAIN parts |-> CleanChars(parts[k])]
                 ELSE <<CleanChars(text)>>
    IN  IF item.children > 1
        THEN [k \in 1..item.children |-> <<"c">>]
        ELSE IF item.img THEN [split EXCEPT ![1] = <<"<img>">>]
        ELSE split

\* lines 425-426: only rows with a non-empty cell are added
ListItemRows(item) ==
    IF \E k \in DOMAIN ListItemRow(item) : Strip(ListItemRow(item)[k]) # <<>>
    THEN <<ListItemRow(item)>>
    ELSE <<>>

----------------------------------------------------------------------------
(* Table assembly: pandas.DataFrame, clean_dataframe, extract_table_data    *)

RECURSIVE MaxRowLen(_)
MaxRowLen(rows) ==
    IF rows = <<>> THEN 0 ELSE Max2(Len(Head(rows)), MaxRowLen(Tail(rows)))

\* f"Column {i+1}" for i in range(max_cols)
GenericNames ==
    <<"Column 1", "Column 2", "Column 3", "Column 4", "Column 5", "Column 6",
      "Column 7", "Column 8", "Column 9", "Column 10", "Column 11", "Column 12">>

GenericHeaders(n) == [i \in 1..n |-> GenericNames[i]]

\* A frame: ok = FALSE stands for "the constructor raised" and for df = None.
NoFrame == [ok |-> FALSE, columns |-> <<>>, rows |-> <<>>]

\* row + [''] * (max_cols - len(row))
PadRowMutNoPad(row, n) == row

PadRow(row, n) == row \o Repeat(TextCell(""), n - Len(row))

\* pd.DataFrame(rows, columns=...): rows shorter than the widest one are
\* filled with None; a width other than len(columns) raises ValueError.
PdDataFrame(rows, columns) ==
    IF MaxRowLen(rows) # Len(columns) THEN NoFrame
    ELSE [ok |-> TRUE,
          columns |-> columns,
          rows |-> [r \in DOMAIN rows |->
                       rows[r] \o Repeat(NoneCell, Len(columns) - Len(rows[r]))]]

ColumnsOnly(df, keep) ==
    [ok |-> TRUE,
     columns |-> SelectIdx(df.columns, keep, 1),
     rows |-> [r \in DOMAIN df.rows |-> SelectIdx(df.rows[r], keep, 1)]]

\* df.dropna(how='all')
DropNaRows(df) ==
    LET keep == [r \in DOMAIN df.rows |->
                    \E c \in DOMAIN df.rows[r] : df.rows[r][c].k # "none"]
    IN  [df EXCEPT !.rows = SelectIdx(df.rows, keep, 1)]

\* df.dropna(axis=1, how='all')
DropNaColumns(df) ==
    ColumnsOnly(df, [c \in DOMAIN df.columns |->
                        \E r \in DOMAIN df.rows : df.rows[r][c].k # "none"])

\* df.loc[:, ~df.columns.duplicated()]: the first column of each name stays
DropDuplicatedMutKeepCells(df) ==
    [df EXCEPT !.columns =
        SelectIdx(df.columns,
                  [c \in DOMAIN df.columns |->
                      \A d \in 1..(c - 1) : df.columns[d] # df.columns[c]], 1)]

DropDuplicated(df) ==
    ColumnsOnly(df, [c \in DOMAIN df.columns |->
                        \A d \in 1..(c - 1) : df.columns[d] # df.columns[c]])

\* str(x).strip() unless the cell holds '<img': None becomes the text "None"
CleanCell(c) ==
    IF c.k = "none" THEN TextCell("None") ELSE c

CleanCells(df) ==
    [df EXCEPT !.rows = [r \in DOMAIN df.rows |->
                            [c \in DOMAIN df.rows[r] |-> CleanCell(df.rows[r][c])]]]

clean_dataframe(df) == CleanCells(DropDuplicated(DropNaColumns(DropNaRows(df))))

\* the frame built at lines 1674-1690; NoFrame for df = None and for a
\* constructor that raised (extract_table_data then returns None)
BuildFrame(headers, rows) ==
    IF rows = <<>> \/ MaxRowLen(rows) <= 1 THEN NoFrame
    ELSE LET raw == IF headers # <<>> /\ Len(headers) = Len(rows[1])
                    THEN PdDataFrame(rows, headers)
                    ELSE PdDataFrame(
                             [r \in DOMAIN rows |-> PadRow(rows[r], MaxRowLen(rows))],
                             GenericHeaders(MaxRowLen(rows)))
         IN  IF raw.ok THEN clean_dataframe(raw) ELSE NoFrame

FrameEmpty(df) == df.rows = <<>> \/ df.columns = <<>>

\* check_for_images: an img anywhere in the markup, or an image cell
check_for_images(soupImg, df) ==
    \/ soupImg
    \/ \E r \in DOMAIN df.rows : \E c \in DOMAIN df.rows[r] : df.rows[r][c].k = "img"

NoRecord ==
    [ok |-> FALSE, title |-> "", columns |-> <<>>, rows |-> <<>>,
     has_images |-> FALSE, container_type |-> ""]

extract_table_data(type, title, headers, rows, soupImg) ==
    LET df == BuildFrame(headers, rows)
    IN  IF df.ok /\ ~FrameEmpty(df)
        THEN [ok |-> TRUE, title |-> title, columns |-> df.columns,
              rows |-> df.rows, has_images |-> check_for_images(soupImg, df),
              container_type |-> type]
        ELSE NoRecord

\* table_data['dataframe']
FrameOf(rec) == [ok |-> TRUE, columns |-> rec.columns, rows |-> rec.rows]

----------------------------------------------------------------------------
(* Image pipeline: download_image and process_table_images                  *)

\* max_workers of the ThreadPoolExecutor
PoolSize == 5

\* urlparse(url): the scheme and the network location are the first four
\* tokens of an absolute address, "scheme:" "/" "/" "host"
BaseUrl(url) == SubSeq(url, 1, 4)

\* parsed_url.netloc.replace("www.", "").split('.')[0]
BaseDomain(url) ==
    CASE url[4] = "example.com" -> "example"
      [] url[4] = "www.shop.org" -> "shop"
      [] url[4] = "cdn.test" -> "cdn"

\* safe_title: characters other than word characters, blanks and hyphens
\* are removed, blanks become "_", runs of "-" and "_" collapse, and the
\* result is cut to 30 characters
SafeTitle(title) ==
    CASE title = "Prices (2023)" -> "Prices_2023"
      [] title = "Prices 2023" -> "Prices_2023"
      [] title = "Table from Shop" -> "Table_from_Shop"
      [] title = "Data Table a1b2" -> "Data_Table_a1b2"
      [] title = "Data Table c3d4" -> "Data_Table_c3d4"
      [] title = "Table 1" -> "Table_1"
      [] title = "Table 2" -> "Table_2"
      [] title = "Table 3" -> "Table_3"
      [] title = "t" -> "t"
      [] OTHER -> title

IsSchemeToken(tok) == tok \in {"http:", "https:", "data:"}

\* the segments of a relative reference: its tokens other than "/"
PathSegments(rel) == SelectIdx(rel, [i \in DOMAIN rel |-> rel[i] # "/"], 1)

\* removal of the dot segments, as urljoin does
RECURSIVE ResolveSegments(_, _)
ResolveSegments(segs, acc) ==
    IF segs = <<>> THEN acc
    ELSE IF Head(segs) = ".."
         THEN ResolveSegments(Tail(segs),
                              IF acc = <<>> THEN acc ELSE SubSeq(acc, 1, Len(acc) - 1))
    ELSE IF Head(segs) = "." THEN ResolveSegments(Tail(segs), acc)
    ELSE ResolveSegments(Tail(segs), Append(acc, Head(segs)))

\* urljoin(base_url, img_url) for a base without a path: a reference with a
\* scheme of its own is returned as it is; a relative one is resolved
\* against the root of the base
UrlJoin(base, rel) ==
    IF rel # <<>> /\ IsSchemeToken(rel[1]) THEN rel
    ELSE LET segs == ResolveSegments(PathSegments(rel), <<>>)
         IN  base \o Flatten([i \in DOMAIN segs |-> <<"/", segs[i]>>])

\* lines 685-691: the address handed to download_image
ResolveImgUrlMutNoBase(img_url, base_url) == img_url

ResolveImgUrl(img_url, base_url) ==
    IF StartsWith(img_url, SlashSlash) THEN <<"https:">> \o img_url
    ELSE IF StartsWith(img_url, <<"/">>) THEN base_url \o img_url
    ELSE IF ~(StartsWith(img_url, HttpPrefix) \/ StartsWith(img_url, HttpsPrefix))
         THEN UrlJoin(base_url, img_url)
    ELSE img_url

\* lines 614-616: the address requests.get is called with
FetchUrl(img_url) ==
    IF StartsWith(img_url, SlashSlash) THEN <<"https:">> \o img_url ELSE img_url

\* os.path.splitext of the address, '.jpg' for no or an unknown extension
ImgExtension(img_url) ==
    LET last == img_url[Len(img_url)] IN
    CASE last \in {"a.png", "b.png", "c.png", "x.png", "l.png", "m.png"} -> ".png"
      [] OTHER -> ".jpg"

ImgFilename(img_url, base_domain, safe_title, index) ==
    [domain |-> base_domain, title |-> safe_title, index |-> index,
     ext |-> ImgExtension(FetchUrl(img_url))]

\* what a download can end with: status 200, another status, a timeout of
\* requests.get, any other exception
Outcomes == {"ok", "status", "timeout", "error"}

\* download_image returns (True, img_filename) or (False, "Error: ..."):
\* a status other than 200 is an error return, and the try block around the
\* whole body turns every exception into one.  "raised" marks a future that
\* holds an exception, which future.result() would raise again.
DownloadResultMutUncaught(fut, outcome) ==
    IF outcome = "ok"
    THEN [fut EXCEPT !.st = "done", !.ok = TRUE]
    ELSE IF outcome = "status"
         THEN [fut EXCEPT !.st = "done", !.ok = FALSE, !.reason = outcome]
    ELSE [fut EXCEPT !.st = "done", !.raised = TRUE]

DownloadResult(fut, outcome) ==
    IF outcome = "ok"
    THEN [fut EXCEPT !.st = "done", !.ok = TRUE]
    ELSE [fut EXCEPT !.st = "done", !.ok = FALSE, !.reason = outcome]

\* the first pass over the cells: one future and one location for each cell
\* that holds '<img src=', rows first, then columns; img_index counts from 1
RECURSIVE CollectCells(_, _, _, _)
CollectCells(df, r, c, acc) ==
    IF r > Len(df.rows) THEN acc
    ELSE IF c > Len(df.columns) THEN CollectCells(df, r + 1, 1, acc)
    ELSE IF df.rows[r][c].k = "img"
         THEN CollectCells(df, r, c + 1, Append(acc, [i |-> r, col |-> c]))
    ELSE CollectCells(df, r, c + 1, acc)

ImageCells(df) == CollectCells(df, 1, 1, <<>>)

MakeLocations(df, base_url) ==
    [n \in DOMAIN ImageCells(df) |->
        [i |-> ImageCells(df)[n].i,
         col |-> ImageCells(df)[n].col,
         img_url |-> ResolveImgUrl(df.rows[ImageCells(df)[n].i][ImageCells(df)[n].col].src,
                                   base_url)]]

MakeFutures(locs, base_domain, safe_title) ==
    [n \in DOMAIN locs |->
        [url |-> locs[n].img_url,
         file |-> ImgFilename(locs[n].img_url, base_domain, safe_title, n),
         st |-> "queued", ok |-> FALSE, reason |-> "", raised |-> FALSE]]

\* lines 707-716: the cell written for a finished future
ResultCellMutDrop(fut, loc) == TextCell("")

ResultCell(fut, loc) ==
    IF fut.ok THEN LocalCell(fut.file) ELSE FailedCell(loc.img_url, fut.reason)

\* df.at[i, col] = value
SetCell(df, i, col, value) == [df EXCEPT !.rows[i][col] = value]

\* zip(futures, cell_locations): the n-th future of the list goes with the
\* n-th location, whatever the order the futures finished in
PairedLocationMutArrival(locs, arrived, n) ==
    locs[CHOOSE k \in DOMAIN arrived : arrived[k] = n]

PairedLocation(locs, arrived, n) == locs[n]

\* line 665: df is a copy, table_data['dataframe'].copy(), so a write to df
\* does not reach the frame of the record
OriginalAfterWriteMutAlias(data, i, col, value) ==
    [data EXCEPT !.rows[i][col] = value]

OriginalAfterWrite(data, i, col, value) == data

Running(futs) == {n \in DOMAIN futs : futs[n].st = "running"}

Queued(futs) == {n \in DOMAIN futs : futs[n].st = "queued"}

----------------------------------------------------------------------------
(* Candidate scanner: get_all_tables                                        *)

(* A page is the sequence, in document order, of the elements that match    *)
(* one of the scanner's selectors.  An element has                          *)
(*   kind      the first pattern group with a selector that matches it:     *)
(*             "table",                                                     *)
(*             "aria" ([role=table|grid]), "div" (a table-like class),      *)
(*             "grid" (style display:grid), "ul", "plain" (any other div,   *)
(*             section or article)                                          *)
(*   sel       the first selector of that group that matches it             *)
(*   parent    the index of its nearest ancestor in the page, 0 for none    *)
(*   displayed is_displayed()                                               *)
(*   len       outerHTML.length                                             *)
(*   rows      the row count the group reads: tr, [role=row], row-like      *)
(*             descendants, detect_grid_rows, li                            *)
(*   structOk  the other structural tests of the group: th/td present,      *)
(*             rows_have_similar_structure, enough children or cells        *)
(*   rect      x, y, w, h of the element                                    *)
(*   content   the markup of a native table                                 *)
(*   tinfo     what the title resolver reads                                *)

\* isAncestor(parent, child) of has_child_in_containers: child is a, or
\* lies below a
RECURSIVE IsAncestorOrSelf(_, _, _)
IsAncestorOrSelf(pg, a, child) ==
    IF child = 0 THEN FALSE
    ELSE IF child = a THEN TRUE
    ELSE IsAncestorOrSelf(pg, a, pg[child].parent)

has_child_in_containers(pg, el, containers) ==
    \E n \in DOMAIN containers : IsAncestorOrSelf(pg, el, containers[n].el)

\* line 1435: sample_rows = rows[:5] if len(rows) > 5 else rows
SampleRowsMutAll(rows) == rows

SampleRows(rows) == IF Len(rows) > 5 THEN SubSeq(rows, 1, 5) ELSE rows

\* Counter(child_counts).most_common(1)[0][1]
MostCommonCount(child_counts) ==
    LET freq(v) == Cardinality({k \in DOMAIN child_counts : child_counts[k] = v})
    IN  CHOOSE f \in {freq(v) : v \in Range(child_counts)} :
            \A v \in Range(child_counts) : freq(v) <= f

\* lines 1423-1469.  rows gives the number of child elements of each row;
\* raised tells that find_elements raised for a row of the sample
rows_have_similar_structure(rows, raised) ==
    LET child_counts == SampleRows(rows) IN
    IF raised /\ child_counts # <<>> THEN FALSE
    ELSE IF child_counts = <<>> THEN FALSE
    ELSE IF \A k \in DOMAIN child_counts : child_counts[k] <= 1 THEN FALSE
    ELSE IF Cardinality(Range(child_counts)) <= 2 THEN TRUE
    ELSE IF 10 * MostCommonCount(child_counts) >= 6 * Len(child_counts) THEN TRUE
    ELSE FALSE

ConfidenceOf(type) ==
    CASE type \in {"html_table", "aria_table"} -> "high"
      [] type \in {"div_table", "grid", "list_table"} -> "medium"
      [] OTHER -> "low"

TypeOfKind(kind) ==
    CASE kind = "table" -> "html_table"
      [] kind = "aria" -> "aria_table"
      [] kind = "div" -> "div_table"
      [] kind = "grid" -> "grid"
      [] kind = "ul" -> "list_table"
      [] kind = "plain" -> "structured_container"

\* the tests an element of a group passes to become a candidate, after the
\* visibility test and the test of processed_elements
Qualifies(pg, el, containers) ==
    LET e == pg[el] IN
    CASE e.kind = "table" ->
             e.rows >= 2 /\ ~(e.rect.w < 50 \/ e.rect.h < 30) /\ e.structOk
      [] e.kind = "aria" -> e.rows >= 2
      [] e.kind = "div" ->
             ~has_child_in_containers(pg, el, containers) /\ e.rows >= 2 /\ e.structOk
      [] e.kind = "grid" ->
             ~has_child_in_containers(pg, el, containers) /\ e.structOk /\ e.rows >= 2
      [] e.kind = "ul" -> e.rows >= 3 /\ e.structOk
      [] e.kind = "plain" ->
             ~(e.rect.w < 100 \/ e.rect.h < 50) /\ e.rows >= 3 /\ e.structOk

Container(pg, el) ==
    [el |-> el,
     type |-> TypeOfKind(pg[el].kind),
     confidence |-> ConfidenceOf(TypeOfKind(pg[el].kind)),
     has_rows |-> pg[el].rows,
     x |-> pg[el].rect.x,
     y |-> pg[el].rect.y]

\* one selector of a pattern group: the elements it finds, in document
\* order, from element el on; st holds all_containers and processed_elements
RECURSIVE ScanFrom(_, _, _, _, _)
ScanFrom(pg, kind, sel, el, st) ==
    IF el > Len(pg) THEN st
    ELSE IF pg[el].kind # kind \/ pg[el].sel # sel
            \/ ~pg[el].displayed \/ pg[el].len \in st.processed
         THEN ScanFrom(pg, kind, sel, el + 1, st)
    ELSE LET seen == st.processed \cup {pg[el].len}
         IN  IF Qualifies(pg, el, st.containers)
             THEN ScanFrom(pg, kind, sel, el + 1,
                           [containers |-> Append(st.containers, Container(pg, el)),
                            processed |-> seen])
             ELSE ScanFrom(pg, kind, sel, el + 1,
                           [containers |-> st.containers, processed |-> seen])

ScanGroup(pg, kind, sel, st) == ScanFrom(pg, kind, sel, 1, st)

\* the groups in the order of lines 1066-1322; the div group and the grid
\* group search with one selector after the other
FindListed(pg) ==
    ScanGroup(pg, "ul", 1,
      ScanGroup(pg, "grid", 2,
        ScanGroup(pg, "grid", 1,
          ScanGroup(pg, "div", 2,
            ScanGroup(pg, "div", 1,
              ScanGroup(pg, "aria", 1,
                ScanGroup(pg, "table", 1,
                  [containers |-> <<>>, processed |-> {}])))))))

\* lines 1325-1369: the last resort runs when nothing was found
FindCandidatesOn(pg) ==
    IF FindListed(pg).containers = <<>>
    THEN ScanGroup(pg, "plain", 1, FindListed(pg)).containers
    ELSE FindListed(pg).containers

----------------------------------------------------------------------------
(* Deduplicator: deduplicate_tables                                         *)

\* the area two boxes share
OverlapArea(r1, r2) ==
    Max2(0, Min2(r1.x + r1.w, r2.x + r2.w) - Max2(r1.x, r2.x))
    * Max2(0, Min2(r1.y + r1.h, r2.y + r2.h) - Max2(r1.y, r2.y))

\* overlapArea > 0.7 * smallerArea
OverlapsMuch(r1, r2) ==
    10 * OverlapArea(r1, r2) > 7 * Min2(r1.w * r1.h, r2.w * r2.h)

\* the script of lines 1573-1615: the same element, one below the other,
\* or boxes that overlap by more than 70% of the smaller one
are_same(pg, e1, e2) ==
    \/ e1 = e2
    \/ IsAncestorOrSelf(pg, e1, e2)
    \/ IsAncestorOrSelf(pg, e2, e1)
    \/ OverlapsMuch(pg[e1].rect, pg[e2].rect)

ConfidenceRank(c) ==
    CASE c.confidence = "high" -> 0
      [] c.confidence = "medium" -> 1
      [] OTHER -> 2

\* container2 is better than container1 (lines 1623-1625)
Better(c2, c1) ==
    \/ ConfidenceRank(c2) < ConfidenceRank(c1)
    \/ ConfidenceRank(c2) = ConfidenceRank(c1) /\ c2.has_rows > c1.has_rows

\* line 1569: a native table is compared with native tables only
TypesCompared(c1, c2) == ~(c1.type = "html_table" /\ c2.type # "html_table")

\* the inner loop for container1 = cs[i], from j on
RECURSIVE DedupInner(_, _, _, _, _)
DedupInner(pg, cs, i, j, st) ==
    IF j > Len(cs) THEN st
    ELSE IF i = j \/ j \in st.skip THEN DedupInner(pg, cs, i, j + 1, st)
    ELSE IF ~TypesCompared(cs[i], cs[j]) THEN DedupInner(pg, cs, i, j + 1, st)
    ELSE IF are_same(pg, cs[i].el, cs[j].el)
         THEN DedupInner(pg, cs, i, j + 1,
                  [result |-> IF Better(cs[j], cs[i])
                              THEN [st.result EXCEPT ![Len(st.result)] = cs[j]]
                              ELSE st.result,
                   skip |-> st.skip \cup {j}])
    ELSE DedupInner(pg, cs, i, j + 1, st)

RECURSIVE DedupOuter(_, _, _, _)
DedupOuter(pg, cs, i, st) ==
    IF i > Len(cs) THEN st.result
    ELSE IF i \in st.skip THEN DedupOuter(pg, cs, i + 1, st)
    ELSE DedupOuter(pg, cs, i + 1,
             DedupInner(pg, cs, i, 1,
                        [result |-> Append(st.result, cs[i]), skip |-> st.skip]))

deduplicate_tables(pg, containers) ==
    DedupOuter(pg, containers, 1, [result |-> <<>>, skip |-> {}])

----------------------------------------------------------------------------
(* Ordering of the candidates (lines 1376-1385)                             *)

DigitChars == <<"0", "1", "2", "3", "4", "5", "6", "7", "8", "9">>

\* str(n) for n >= 0, as a sequence of characters
RECURSIVE Digits(_)
Digits(n) ==
    IF n < 10 THEN <<DigitChars[n + 1]>>
    ELSE Digits(n \div 10) \o <<DigitChars[(n % 10) + 1]>>

\* f"{x}-{y}"
PositionStr(c) == Digits(c.x) \o <<"-">> \o Digits(c.y)

\* the code point of a character of a position string
CharCode(ch) ==
    IF ch = "-" THEN 45
    ELSE 47 + (CHOOSE d \in DOMAIN DigitChars : DigitChars[d] = ch)

\* a < b for Python strings
RECURSIVE StrLess(_, _)
StrLess(a, b) ==
    IF b = <<>> THEN FALSE
    ELSE IF a = <<>> THEN TRUE
    ELSE IF CharCode(Head(a)) # CharCode(Head(b))
         THEN CharCode(Head(a)) < CharCode(Head(b))
    ELSE StrLess(Tail(a), Tail(b))

\* the sort key of c1 is less than that of c2
KeyLess(c1, c2) ==
    \/ ConfidenceRank(c1) < ConfidenceRank(c2)
    \/ /\ ConfidenceRank(c1) = ConfidenceRank(c2)
       /\ StrLess(PositionStr(c1), PositionStr(c2))

\* sorted() is stable: c goes behind every element whose key is not greater
RECURSIVE InsertSorted(_, _)
InsertSorted(sorted, c) ==
    IF sorted = <<>> THEN <<c>>
    ELSE IF KeyLess(c, Head(sorted)) THEN <<c>> \o sorted
    ELSE <<Head(sorted)>> \o InsertSorted(Tail(sorted), c)

RECURSIVE SortContainers(_)
SortContainers(cs) ==
    IF cs = <<>> THEN <<>>
    ELSE InsertSorted(SortContainers(SubSeq(cs, 1, Len(cs) - 1)), cs[Len(cs)])

----------------------------------------------------------------------------
(* Title resolver: get_table_title                                          *)

(* What the resolver reads of an element and its page:                      *)
(*   caption     the text of a caption element, Absent for no caption       *)
(*   aria        the aria-label attribute, "" when absent                   *)
(*   titleAttr   the title attribute, "" when absent                        *)
(*   heading     the text of the first heading the three searches of the    *)
(*               script find (preceding siblings, children of the parent,   *)
(*               nearest heading above), Absent for none                    *)
(*   figcaption  the text of the figcaption of an enclosing figure          *)
(*   id, class, parentId  attributes, "" when absent                        *)
(*   pageTitle   driver.title                                               *)

Absent == "<absent>"

\* the script of lines 1760-1841; the caption is absent when it runs
FindTableHeading(ti) ==
    IF ti.aria # "" THEN ti.aria
    ELSE IF ti.titleAttr # "" THEN ti.titleAttr
    ELSE IF ti.heading # Absent THEN ti.heading
    ELSE IF ti.figcaption # Absent THEN ti.figcaption
    ELSE ""

\* camelCase, "_" and "-" to blanks, then str.title()
Readable(name) ==
    CASE name = "priceList" -> "Price List"
      [] name = "data-grid" -> "Data Grid"
      [] name = "main_content" -> "Main Content"
      [] OTHER -> name

\* the first class longer than 3 characters that does not start with "_"
DescriptiveClass(cls) ==
    CASE cls = "data-grid" -> "data-grid"
      [] cls = "row x data-grid" -> "data-grid"
      [] OTHER -> ""

IdUsable(id) == id # "" /\ id \notin {"_x", "_gen1"}

TableOf(name) ==
    CASE name = "Price List" -> "Table: Price List"
      [] name = "Data Grid" -> "Table: Data Grid"

TableIn(name) ==
    CASE name = "Main Content" -> "Table in Main Content"

\* page_title.split(' - ')[0].split(' | ')[0].strip() behind "Table from "
TableFrom(pageTitle) ==
    CASE pageTitle = "Shop - Home" -> "Table from Shop"
      [] pageTitle = "Shop" -> "Table from Shop"

HexIds == {"a1b2", "c3d4"}

\* f"Data Table {uuid.uuid4().hex[:4]}"
DataTable(hex) ==
    CASE hex = "a1b2" -> "Data Table a1b2"
      [] hex = "c3d4" -> "Data Table c3d4"

\* hex is the identifier uuid4 returns, should the last fallback be reached
get_table_title(ti, hex) ==
    IF ti.caption # Absent THEN ti.caption
    ELSE IF FindTableHeading(ti) # "" THEN FindTableHeading(ti)
    ELSE IF IdUsable(ti.id) THEN TableOf(Readable(ti.id))
    ELSE IF DescriptiveClass(ti.class) # "" THEN TableOf(Readable(DescriptiveClass(ti.class)))
    ELSE IF IdUsable(ti.parentId) THEN TableIn(Readable(ti.parentId))
    ELSE IF ti.pageTitle # "" THEN TableFrom(ti.pageTitle)
    ELSE DataTable(hex)

NoTitleInfo ==
    [caption |-> Absent, aria |-> "", titleAttr |-> "", heading |-> Absent,
     figcaption |-> Absent, id |-> "", class |-> "", parentId |-> "", pageTitle |-> ""]

----------------------------------------------------------------------------
(* Region capture: the styles capture_element_screenshot writes             *)

(* The styles of a node: overflow, and for the element maxWidth and width.  *)
(* styles[1] is the element, styles[k + 1] its k-th ancestor.               *)

\* lines 986-995: the script looks at 5 ancestors at most
AncestorsVisited == 5

\* lines 980-1000: the script makes the element and the visited ancestors
\* that hide overflow visible and frees the width of the element
MakeVisible(styles) ==
    [k \in DOMAIN styles |->
        IF k = 1
        THEN [overflow |-> "visible", maxWidth |-> "none", width |-> "auto"]
        ELSE IF k - 1 <= AncestorsVisited /\ styles[k].overflow = "hidden"
        THEN [styles[k] EXCEPT !.overflow = "visible"]
        ELSE styles[k]]

\* line 1009
margin == 10

\* lines 1017-1026: the box handed to full_img.crop for an element at
\* location of the given size and a screenshot of width by height pixels
CropBox(location, size, width, height) ==
    [left |-> Max2(0, location.x - margin),
     top |-> Max2(0, location.y - margin),
     right |-> Min2(width, location.x + size.width + margin),
     bottom |-> Min2(height, location.y + size.height + margin)]

----------------------------------------------------------------------------
(* One run on a page: the loop of screenshot_tables                         *)

\* f"Table {idx+1}"
TableN(n) ==
    CASE n = 1 -> "Table 1"
      [] n = 2 -> "Table 2"
      [] n = 3 -> "Table 3"
      [] OTHER -> "Table 4"

\* files under screenshots/
NoFile == [what |-> "", title |-> "", index |-> 0]
FullPageFile == [what |-> "full_page", title |-> "", index |-> 0]
ErrorFile == [what |-> "error", title |-> "", index |-> 0]
ElementFile(safe_title, n) == [what |-> "element", title |-> safe_title, index |-> n]

\* the ways capture_element_screenshot ends: the cropped page screenshot,
\* the element screenshot after a failed crop, the element screenshot after
\* any other failure, and False when that fails too
CapturePaths == {"crop", "fallback", "last_resort", "fail"}

\* the second pass of process_table_images for given outcomes of the
\* downloads, from future n on
RECURSIVE ApplyResults(_, _, _, _, _)
ApplyResults(df, locs, futs, outs, n) ==
    IF n > Len(futs) THEN df
    ELSE ApplyResults(SetCell(df, locs[n].i, locs[n].col,
                              ResultCell(DownloadResult(futs[n], outs[n]), locs[n])),
                      locs, futs, outs, n + 1)

\* the derived frame process_table_images stores, NoFrame when there is none
process_table_images(rec, url, outs) ==
    LET locs == MakeLocations(FrameOf(rec), BaseUrl(url))
        futs == MakeFutures(locs, BaseDomain(url), SafeTitle(rec.title))
    IN  IF ~rec.has_images \/ locs = <<>> THEN NoFrame
        ELSE ApplyResults(FrameOf(rec), locs, futs, outs, 1)

\* lines 829-830: too small to be a table
TooSmall(rec, confidence) ==
    \/ Len(rec.rows) <= 1 /\ Len(rec.columns) <= 1
    \/ Len(rec.rows) <= 2 /\ Len(rec.columns) <= 2 /\ confidence = "low"

\* an entry of tables_info
TableEntry(rec, file, local) ==
    [kind |-> "table", title |-> rec.title, columns |-> rec.columns, rows |-> rec.rows,
     has_images |-> rec.has_images, container_type |-> rec.container_type,
     screenshot |-> file, local |-> local.rows]

\* lines 854-860: the entry that stands for a page without a table
FullPageEntry ==
    [kind |-> "full_page", title |-> "Full page", columns |-> <<>>, rows |-> <<>>,
     has_images |-> FALSE, container_type |-> "",
     screenshot |-> FullPageFile, local |-> <<>>]

\* lines 876-883
ErrorEntry ==
    [kind |-> "error", title |-> "Error", columns |-> <<>>, rows |-> <<>>,
     has_images |-> FALSE, container_type |-> "",
     screenshot |-> ErrorFile, local |-> <<>>]

\* lines 852-860: if not tables_info: tables_info.append({...})
WithPlaceholderMutNone(info) == info

WithPlaceholder(info) == IF info = <<>> THEN <<FullPageEntry>> ELSE info

\* the number of image cells the markup of a native table holds
RECURSIVE CountImgs(_)
CountImgs(trs) ==
    IF trs = <<>> THEN 0
    ELSE Len(SelectIdx(Head(trs), [i \in DOMAIN Head(trs) |-> Head(trs)[i].img], 1))
         + CountImgs(Tail(trs))

\* lines 783-847 for the container c of element e, the n-th of the loop,
\* on the page at url.
\* env holds what the browser and the network answer: isConnected
\* ("connected", "detached", or "error" for a script that raised),
\* is_displayed ("shown", "hidden", or "stale" for a call that raised), the
\* identifiers uuid4 returns to the two calls of get_table_title, the way
\* capture_element_screenshot ends, what the extractor of another type
\* returns, whether process_table_images raised ("ok" or "error"), and the
\* outcomes of the downloads.
Iteration(c, e, n, url, env) ==
    LET t1 == get_table_title(e.tinfo, env.hex1)
        table_title == IF t1 = "" THEN TableN(n) ELSE t1
        file == ElementFile(SafeTitle(table_title), n)
        data == IF c.type = "html_table"
                THEN [headers |-> extract_html_table_data(e.content).headers,
                      rows |-> extract_html_table_data(e.content).rows,
                      img |-> MarkupHasImg(e.content)]
                ELSE env.other
        rec == extract_table_data(c.type, get_table_title(e.tinfo, env.hex2),
                                  data.headers, data.rows, data.img)
    IN  IF env.conn # "connected"
        THEN [entries |-> <<>>, files |-> {}, event |-> env.conn]
        ELSE IF env.shown # "shown"
        THEN [entries |-> <<>>, files |-> {}, event |-> env.shown]
        ELSE IF env.cap = "fail"
        THEN [entries |-> <<>>, files |-> {}, event |-> "capture_failed"]
        ELSE IF ~rec.ok
        THEN [entries |-> <<>>, files |-> {file}, event |-> "no_data"]
        ELSE IF TooSmall(rec, c.confidence)
        THEN [entries |-> <<>>, files |-> {file}, event |-> "too_small"]
        ELSE IF rec.has_images /\ env.imgs = "error"
        THEN [entries |-> <<>>, files |-> {file}, event |-> "images_failed"]
        ELSE [entries |-> <<TableEntry(rec, file,
                                       process_table_images(rec, url, env.outs))>>,
              files |-> {file}, event |-> "extracted"]

\* lines 782 and 845-847: the number of candidates the loop is through
\* with, of total, once the pass that follows i passes has ended with event
NextCandidateMutBreak(i, event, total) ==
    IF event \in {"detached", "error", "hidden", "stale", "capture_failed",
                  "images_failed"}
    THEN total
    ELSE i + 1

NextCandidate(i, event, total) == i + 1

----------------------------------------------------------------------------
(* Inputs of the extraction model                                           *)

MaxBodyRows == 2

Td(t) == [tag |-> "td", text |-> t, colspan |-> "", img |-> FALSE, src |-> NoUrl]
Th(t) == [tag |-> "th", text |-> t, colspan |-> "", img |-> FALSE, src |-> NoUrl]
TdSpan(t, n) == [tag |-> "td", text |-> t, colspan |-> n, img |-> FALSE, src |-> NoUrl]
TdImg(u) == [tag |-> "td", text |-> "", colspan |-> "", img |-> TRUE, src |-> u]

\* rows of native tables: plain rows of 1..3 cells, spanning cells, a blank
\* row, rows with th cells, rows with images, a row with an img element
\* that has no src
RowPool ==
    { <<Td("a"), Td("b")>>,
      <<Td("a"), Td("b"), Td("c")>>,
      <<Td("a")>>,
      <<Td(""), Td(" ")>>,
      <<TdSpan("X", "3"), Td("Y")>>,
      <<TdSpan("X", "0"), Td("Y")>>,
      <<TdSpan("X", "-1"), Td("Y")>>,
      <<TdSpan("X", "x"), Td("Y")>>,
      <<TdSpan("X", "2")>>,
      <<Th("A"), Th("B")>>,
      <<Th(" A "), Td("b")>>,
      <<Td("a"), TdImg(UrlRootRel)>>,
      <<TdImg(UrlProtoRel), TdImg(NoUrl)>>,
      <<Td("a"), TdImg(NoUrl)>> }

\* thead: absent, or one row
TheadPool ==
    { <<>>,
      << <<Th("A"), Th("B")>> >>,
      << <<Td("a"), Td("b")>> >>,
      << <<Th("A"), Th("A"), Th("C")>> >>,
      << <<TdSpan("X", "2")>> >>,
      << <<>> >> }

NativeTables ==
    [thead : TheadPool, body : SeqsFromTo(RowPool, 1, MaxBodyRows)]

EmptyTable == [thead |-> <<>>, body |-> <<>>]

\* what the row extractors of the other structural types return: any
\* headers, and rows without blank rows
OtherTypes == {"aria_table", "div_table", "grid", "list_table", "structured_container"}

OtherCells == {TextCell("a"), TextCell(""), ImgCell(UrlRel)}

OtherRowSet == {r \in SeqsFromTo(OtherCells, 1, 2) : RowKept(r)}

OtherHeaderSet == SeqsUpTo({"A", "B"}, 2)

\* pages the tables are taken from
PageUrls ==
    { <<"https:", "/", "/", "example.com", "/", "shop">>,
      <<"http:", "/", "/", "www.shop.org">> }

\* the src attributes of the img elements of the model
SrcPool ==
    {UrlRootRel, UrlProtoRel, UrlRel, UrlDotRel, UrlAbsHttps, UrlAbsHttp, UrlData}

MaxImages == 2

ImgCellPool == {Td("a"), TdImg(NoUrl)} \cup {TdImg(u) : u \in SrcPool}

ImgSrcCells(body) ==
    {rc \in (DOMAIN body) \X (1..2) : body[rc[1]][rc[2]].img /\ body[rc[1]][rc[2]].src # NoUrl}

\* tables of one or two rows of two cells with at most MaxImages images;
\* tables with several images take them from two of the addresses
ImageMarkups ==
    {t \in [thead : {<<>>}, body : SeqsFromTo([1..2 -> ImgCellPool], 1, 2)] :
        /\ Cardinality(ImgSrcCells(t.body)) <= MaxImages
        /\ Cardinality(ImgSrcCells(t.body)) > 1 =>
              \A rc \in ImgSrcCells(t.body) :
                  t.body[rc[1]][rc[2]].src \in {UrlRootRel, UrlAbsHttps}}

\* the record extract_table_data builds for a native table
RecordOf(t, title) ==
    extract_table_data("html_table", title, extract_html_table_data(t).headers,
                       extract_html_table_data(t).rows, MarkupHasImg(t))

----------------------------------------------------------------------------
(* Inputs of the scanner model                                              *)

MaxElems == 2

Kinds == {"table", "aria", "div", "grid", "ul", "plain"}

\* boxes: RectB lies inside RectA; RectC overlaps RectA by 40% and RectB
\* by 25% of the smaller box; RectD lies above the three and touches none
RectA == [x |-> 0, y |-> 100, w |-> 100, h |-> 100]
RectB == [x |-> 0, y |-> 100, w |-> 100, h |-> 80]
RectC == [x |-> 0, y |-> 160, w |-> 100, h |-> 100]
RectD == [x |-> 0, y |-> 20, w |-> 100, h |-> 60]

Rects == {RectA, RectB, RectC, RectD}

\* the div group has elements of its first and of a later selector
Shapes ==
    {sh \in [kind : Kinds, sel : {1, 2}, rows : {2, 3}, rect : Rects] :
        sh.sel = 2 => sh.kind = "div"}

\* a lies on the chain of parents of c, or is c
RECURSIVE OnChain(_, _, _)
OnChain(par, a, c) ==
    IF c = 0 THEN FALSE
    ELSE IF c = a THEN TRUE
    ELSE OnChain(par, a, par[c])

\* document order: an element follows its ancestors, and the parent of an
\* element is the element before it or one of that element's ancestors
ParentMaps(n) ==
    {par \in [1..n -> 0..(n - 1)] :
        \A i \in 1..n :
            /\ par[i] < i
            /\ par[i] # 0 => OnChain(par, par[i], i - 1)}

\* outerHTML of an element holds that of its descendants
LenAt(i) == 1000 - 10 * i

PageOf(shape, par) ==
    [i \in DOMAIN shape |->
        [kind |-> shape[i].kind, sel |-> shape[i].sel, parent |-> par[i],
         displayed |-> TRUE, len |-> LenAt(i), rows |-> shape[i].rows,
         structOk |-> TRUE, rect |-> shape[i].rect,
         content |-> EmptyTable, tinfo |-> NoTitleInfo]]

----------------------------------------------------------------------------
(* Inputs of the run model                                                  *)

RunUrl == <<"https:", "/", "/", "example.com", "/", "shop">>

HeaderTh == <<Th("Name"), Th("Qty"), Th("Price")>>
HeaderTd == <<Td("Name"), Td("Qty"), Td("Price")>>

DataRow(k) == <<Td(<<"n1", "n2", "n3", "n4", "n5">>[k]), Td("b"), Td("c")>>

\* header row in a thead, five data rows
TableThead ==
    [thead |-> <<HeaderTh>>,
     body |-> <<DataRow(1), DataRow(2), DataRow(3), DataRow(4), DataRow(5)>>]

\* header row as a first row of th cells
TableFirstRow ==
    [thead |-> <<>>,
     body |-> <<HeaderTh, DataRow(1), DataRow(2), DataRow(3), DataRow(4), DataRow(5)>>]

\* a thead of td cells, and a data row with the content of the header row
TableRepeat ==
    [thead |-> <<HeaderTd>>,
     body |-> <<DataRow(1), DataRow(2), HeaderTd, DataRow(3), DataRow(4)>>]

\* an image in a cell
TableImg ==
    [thead |-> <<>>,
     body |-> <<<<Td("a"), TdImg(UrlRootRel)>>, <<Td("b"), TdImg(UrlAbsHttps)>>>>]

\* one column only: no frame is built
TableNarrow == [thead |-> <<>>, body |-> <<<<Td("a")>>, <<Td("b")>>>>]

RunTables == {TableThead, TableFirstRow, TableRepeat, TableImg, TableNarrow}

Captioned == [NoTitleInfo EXCEPT !.caption = "Prices 2023"]

RunTitleInfos == {Captioned, NoTitleInfo}

TableElem(t, ti, rect, i) ==
    [kind |-> "table", sel |-> 1, parent |-> 0, displayed |-> TRUE, len |-> LenAt(i),
     rows |-> Len(AllTr(t)), structOk |-> TRUE, rect |-> rect,
     content |-> t, tinfo |-> ti]

\* an element of another kind: an ARIA grid of rows, or a div that has no
\* rows
OtherElem(kind, rows, i) ==
    [kind |-> kind, sel |-> 1, parent |-> 0, displayed |-> TRUE, len |-> LenAt(i),
     rows |-> rows, structOk |-> rows > 0, rect |-> RectC,
     content |-> EmptyTable, tinfo |-> Captioned]

\* pages of a run: no element, one or two native tables, an ARIA grid, a
\* div that is no table, two tables with images under the same caption
RunPages ==
    {<<>>, <<OtherElem("aria", 3, 1)>>, <<OtherElem("plain", 0, 1)>>}
    \cup {<<TableElem(t, ti, RectA, 1)>> : t \in RunTables, ti \in RunTitleInfos}
    \cup {<<TableElem(t1, Captioned, RectA, 1), TableElem(t2, Captioned, RectC, 2)>> :
             t1 \in {TableThead, TableNarrow}, t2 \in {TableFirstRow, TableNarrow}}
    \cup {<<TableElem(TableImg, Captioned, RectA, 1), TableElem(TableImg, Captioned, RectC, 2)>>}

\* what the row extractors of the other types return in a run
RunOtherData ==
    {[headers |-> <<>>, rows |-> <<>>, img |-> FALSE],
     [headers |-> <<"A", "B">>,
      rows |-> <<<<TextCell("a"), TextCell("b")>>, <<TextCell("c"), TextCell("d")>>,
                 <<TextCell("e"), TextCell("f")>>>>,
      img |-> FALSE]}

\* three elements over each other: RectE holds RectB and covers 90% of
\* RectA, so each two of the three boxes overlap by more than 70% of the
\* smaller one
RectE == [x |-> 0, y |-> 100, w |-> 100, h |-> 90]

TripleShapes ==
    [kind : {"aria", "div"}, sel : {1}, rows : {2, 3, 4}, rect : {RectA, RectB, RectE}]

\* two elements, neither inside the other, apart (RectD, RectA) or at one
\* place; the second one has outerHTML of length len2
TwinShapes ==
    [kind : {"table", "aria", "div", "grid", "ul"}, sel : {1}, rows : {2, 3},
     rect : {RectA, RectD}]

TwinPage(shape, len2) ==
    [PageOf(shape, [i \in 1..2 |-> 0]) EXCEPT ![2].len = len2]

\* one element of any group, shown or hidden, of full size, of the size of
\* an icon, or low (under the height the generic group asks for)
RectIcon == [x |-> 0, y |-> 20, w |-> 20, h |-> 20]
RectLow == [x |-> 0, y |-> 20, w |-> 100, h |-> 40]

SizeShapes ==
    {sh \in [kind : Kinds, sel : {1, 2}, rows : {2, 3, 4}, displayed : BOOLEAN,
             rect : {RectA, RectIcon, RectLow}] :
        sh.sel = 2 => sh.kind \in {"div", "grid"}}

SizePage(sh) ==
    [PageOf(<<sh>>, <<0>>) EXCEPT ![1].displayed = sh.displayed]

\* rows of a div, grid or list candidate, each given by the number of its
\* child elements
MaxStructRows == 6

ChildCounts == 0..3

StructRows == UNION {[1..n -> ChildCounts] : n \in 0..MaxStructRows}

\* an element under up to MaxAncestors ancestors, each with its overflow
MaxAncestors == 6

ElementStyles ==
    [overflow : {"hidden", "auto"}, maxWidth : {"", "300px"}, width : {"", "300px"}]

AncestorStyles == [overflow : {"hidden", "visible"}, maxWidth : {""}, width : {""}]

StyleChains ==
    UNION {{<<e>> \o a : e \in ElementStyles, a \in [1..n -> AncestorStyles]} :
              n \in 0..MaxAncestors}

\* elements inside the screenshot, across its edges and outside of it
Coordinates == {-60, 0, 50, 150}

Extents == {20, 40, 120}

ShotExtents == {100, 200}

\* list items: the text has up to MaxTextLen characters
MaxTextLen == 5

ItemTexts == UNION {[1..n -> {"a", " ", ":", "|"}] : n \in 0..MaxTextLen}

ListItems == [children : 0..2, text : ItemTexts, img : BOOLEAN]

\* extractions in one session
MaxExtractions == 3

----------------------------------------------------------------------------
(* Inputs of the title model                                                *)

TitleInfos ==
    [caption : {Absent, "", "Prices 2023"},
     aria : {"", "Price list"},
     titleAttr : {"", "Prices"},
     heading : {Absent, "", "Overview"},
     figcaption : {Absent, "Figure 1"},
     id : {"", "_x", "priceList"},
     class : {"", "row x data-grid"},
     parentId : {"", "main_content"},
     pageTitle : {"", "Shop - Home"}]

----------------------------------------------------------------------------
(* Components at rest: each specification runs one component and leaves    *)
(* the variables of the others at these values                              *)

IdleExtract ==
    /\ xPc = "idle"
    /\ xType = ""
    /\ xTable = EmptyTable
    /\ xHeaders = <<>>
    /\ xRows = <<>>
    /\ xSoupImg = FALSE
    /\ xRec = NoRecord

IdleImages ==
    /\ iPc = "idle"
    /\ iUrl = NoUrl
    /\ iMarkup = EmptyTable
    /\ iData = NoRecord
    /\ iLocal = NoFrame
    /\ iDf = NoFrame
    /\ iFutures = <<>>
    /\ iLocs = <<>>
    /\ iNext = 0
    /\ iProcessed = FALSE
    /\ iArrived = <<>>

IdleScan ==
    /\ page = <<>>
    /\ sPc = "idle"
    /\ driver = "none"
    /\ all_containers = <<>>
    /\ deduplicated_containers = <<>>
    /\ sorted_containers = <<>>
    /\ idx = 0
    /\ tables_info = <<>>
    /\ files = {}
    /\ log = {}
    /\ result = <<>>

IdleCall ==
    /\ fPc = "idle"
    /\ fArgs = <<>>
    /\ fRet = <<>>

IdleCapture ==
    /\ cPc = "idle"
    /\ cStyle = <<>>
    /\ cBefore = <<>>

IdleApp ==
    /\ aPc = "idle"
    /\ extraction_in_progress = FALSE
    /\ data_extracted = FALSE
    /\ extraction_method = "None"
    /\ aDone = <<>>

IdleOthers == IdleCall /\ IdleCapture /\ IdleApp

IdleTitle ==
    /\ tInfo = NoTitleInfo
    /\ tTable = EmptyTable
    /\ tRuns = <<>>

----------------------------------------------------------------------------
(* Row extraction and assembly of one container                             *)

InitExtract ==
    /\ xPc = "input"
    /\ \/ xType = "html_table" /\ xTable \in NativeTables
       \/ xType \in {"div_table", "list_table"} /\ xTable = EmptyTable
    /\ xHeaders = <<>>
    /\ xRows = <<>>
    /\ xSoupImg = FALSE
    /\ xRec = NoRecord
    /\ IdleOthers
    /\ IdleImages
    /\ IdleScan
    /\ IdleTitle

\* the strategy for container['type'] == 'html_table'
ExtractHtml ==
    /\ xPc = "input"
    /\ xType = "html_table"
    /\ xHeaders' = extract_html_table_data(xTable).headers
    /\ xRows' = extract_html_table_data(xTable).rows
    /\ xSoupImg' = MarkupHasImg(xTable)
    /\ xPc' = "extracted"
    /\ UNCHANGED <<xType, xTable, xRec, iVars, sVars, tVars, oVars>>

\* the strategies of the other types
ExtractOther ==
    /\ xPc = "input"
    /\ xType # "html_table"
    /\ \E h \in OtherHeaderSet, rs \in SeqsUpTo(OtherRowSet, MaxBodyRows), im \in BOOLEAN :
          /\ (\E r \in DOMAIN rs : \E c \in DOMAIN rs[r] : rs[r][c].k = "img") => im
          /\ xHeaders' = h
          /\ xRows' = rs
          /\ xSoupImg' = im
    /\ xPc' = "extracted"
    /\ UNCHANGED <<xType, xTable, xRec, iVars, sVars, tVars, oVars>>

\* lines 1674-1705 of extract_table_data
Assemble ==
    /\ xPc = "extracted"
    /\ xRec' = extract_table_data(xType, "t", xHeaders, xRows, xSoupImg)
    /\ xPc' = "assembled"
    /\ UNCHANGED <<xType, xTable, xHeaders, xRows, xSoupImg, iVars, sVars, tVars, oVars>>

NextExtract == ExtractHtml \/ ExtractOther \/ Assemble

SpecExtract == InitExtract /\ [][NextExtract]_vars

----------------------------------------------------------------------------
(* The image pipeline on one table record: process_table_images             *)

InitImages ==
    /\ IdleOthers
    /\ IdleExtract
    /\ IdleScan
    /\ IdleTitle
    /\ iPc = "start"
    /\ iUrl \in PageUrls
    /\ iMarkup \in ImageMarkups
    /\ iData = RecordOf(iMarkup, "Prices 2023")
    /\ iData.ok
    /\ iLocal = NoFrame
    /\ iDf = NoFrame
    /\ iFutures = <<>>
    /\ iLocs = <<>>
    /\ iNext = 0
    /\ iProcessed = FALSE
    /\ iArrived = <<>>

\* lines 649-650: nothing to do for a record without images
ImgSkip ==
    /\ iPc = "start"
    /\ ~iData.has_images
    /\ iPc' = "done"
    /\ UNCHANGED <<iUrl, iMarkup, iData, iLocal, iDf, iFutures, iLocs, iNext, iProcessed,
                   iArrived, xVars, sVars, tVars, oVars>>

\* lines 652-704: the copy of the frame and the first pass, which submits
\* one download for every image cell.  The workers read nothing the first
\* pass writes, so the pass is one step.
ImgSubmit ==
    /\ iPc = "start"
    /\ iData.has_images
    /\ iDf' = FrameOf(iData)
    /\ iLocs' = MakeLocations(FrameOf(iData), BaseUrl(iUrl))
    /\ iFutures' = MakeFutures(MakeLocations(FrameOf(iData), BaseUrl(iUrl)),
                               BaseDomain(iUrl), SafeTitle(iData.title))
    /\ iPc' = "collect"
    /\ UNCHANGED <<iUrl, iMarkup, iData, iLocal, iNext, iProcessed, iArrived,
                   xVars, sVars, tVars, oVars>>

\* a free worker of the pool takes the oldest queued download
WorkerStart ==
    /\ iPc = "collect"
    /\ Queued(iFutures) # {}
    /\ Cardinality(Running(iFutures)) < PoolSize
    /\ LET n == CHOOSE m \in Queued(iFutures) : \A o \in Queued(iFutures) : m <= o
       IN  iFutures' = [iFutures EXCEPT ![n].st = "running"]
    /\ UNCHANGED <<iPc, iUrl, iMarkup, iData, iLocal, iDf, iLocs, iNext, iProcessed,
                   iArrived, xVars, sVars, tVars, oVars>>

\* download_image returns in a worker, with any outcome of the request
WorkerFinish ==
    /\ iPc = "collect"
    /\ \E n \in Running(iFutures), outcome \in Outcomes :
          /\ iFutures' = [iFutures EXCEPT ![n] = DownloadResult(iFutures[n], outcome)]
          /\ iArrived' = Append(iArrived, n)
    /\ UNCHANGED <<iPc, iUrl, iMarkup, iData, iLocal, iDf, iLocs, iNext, iProcessed,
                   xVars, sVars, tVars, oVars>>

\* lines 707-716: future.result() of the next future of the list has
\* returned and the cell at its location is written
ImgCollect ==
    /\ iPc = "collect"
    /\ iNext < Len(iFutures)
    /\ iFutures[iNext + 1].st = "done"
    /\ IF iFutures[iNext + 1].raised
       THEN iPc' = "raised" /\ UNCHANGED <<iDf, iData, iProcessed, iNext>>
       ELSE LET loc == PairedLocation(iLocs, iArrived, iNext + 1)
                value == ResultCell(iFutures[iNext + 1], loc)
            IN  /\ iDf' = SetCell(iDf, loc.i, loc.col, value)
                /\ iData' = OriginalAfterWrite(iData, loc.i, loc.col, value)
                /\ iProcessed' = TRUE
                /\ iNext' = iNext + 1
                /\ iPc' = iPc
    /\ UNCHANGED <<iUrl, iMarkup, iLocal, iFutures, iLocs, iArrived, xVars, sVars, tVars, oVars>>

\* lines 718-722: the executor has shut down; the derived frame is stored
ImgReturn ==
    /\ iPc = "collect"
    /\ iNext = Len(iFutures)
    /\ iLocal' = IF iProcessed THEN iDf ELSE iLocal
    /\ iPc' = "done"
    /\ UNCHANGED <<iUrl, iMarkup, iData, iDf, iFutures, iLocs, iNext, iProcessed,
                   iArrived, xVars, sVars, tVars, oVars>>

NextImages ==
    ImgSkip \/ ImgSubmit \/ WorkerStart \/ WorkerFinish \/ ImgCollect \/ ImgReturn

SpecImages == InitImages /\ [][NextImages]_vars

----------------------------------------------------------------------------
(* The scanner on one page: get_all_tables                                  *)

InitScan ==
    /\ IdleOthers
    /\ IdleExtract
    /\ IdleImages
    /\ IdleTitle
    /\ \E n \in 1..MaxElems :
          \E shape \in [1..n -> Shapes], par \in ParentMaps(n) :
              page = PageOf(shape, par)
    /\ sPc = "find"
    /\ driver = "open"
    /\ all_containers = <<>>
    /\ deduplicated_containers = <<>>
    /\ sorted_containers = <<>>
    /\ idx = 0
    /\ tables_info = <<>>
    /\ files = {}
    /\ log = {}
    /\ result = <<>>

\* lines 1063-1369: the passes over the pattern groups
FindCandidates ==
    /\ sPc = "find"
    /\ all_containers' = FindCandidatesOn(page)
    /\ sPc' = "dedup"
    /\ UNCHANGED <<page, driver, deduplicated_containers, sorted_containers, idx,
                   tables_info, files, log, result, xVars, iVars, tVars, oVars>>

\* line 1373
Deduplicate ==
    /\ sPc = "dedup"
    /\ deduplicated_containers' = deduplicate_tables(page, all_containers)
    /\ sPc' = "sort"
    /\ UNCHANGED <<page, driver, all_containers, sorted_containers, idx,
                   tables_info, files, log, result, xVars, iVars, tVars, oVars>>

\* lines 1377-1385
SortCandidates ==
    /\ sPc = "sort"
    /\ sorted_containers' = SortContainers(deduplicated_containers)
    /\ sPc' = "scanned"
    /\ UNCHANGED <<page, driver, all_containers, deduplicated_containers, idx,
                   tables_info, files, log, result, xVars, iVars, tVars, oVars>>

NextScan == FindCandidates \/ Deduplicate \/ SortCandidates

SpecScan == InitScan /\ [][NextScan]_vars

\* get_all_tables on a page of three elements that lie over each other
InitTriple ==
    /\ IdleOthers
    /\ IdleExtract
    /\ IdleImages
    /\ IdleTitle
    /\ \E shape \in [1..3 -> TripleShapes] :
          page = PageOf(shape, [i \in 1..3 |-> 0])
    /\ sPc = "find"
    /\ driver = "open"
    /\ all_containers = <<>>
    /\ deduplicated_containers = <<>>
    /\ sorted_containers = <<>>
    /\ idx = 0
    /\ tables_info = <<>>
    /\ files = {}
    /\ log = {}
    /\ result = <<>>

SpecTriple == InitTriple /\ [][NextScan]_vars

\* get_all_tables on a page of two elements side by side whose outerHTML
\* may have the same length
InitTwins ==
    /\ IdleOthers
    /\ IdleExtract
    /\ IdleImages
    /\ IdleTitle
    /\ \E shape \in [1..2 -> TwinShapes], len2 \in {LenAt(1), LenAt(2)} :
          page = TwinPage(shape, len2)
    /\ sPc = "find"
    /\ driver = "open"
    /\ all_containers = <<>>
    /\ deduplicated_containers = <<>>
    /\ sorted_containers = <<>>
    /\ idx = 0
    /\ tables_info = <<>>
    /\ files = {}
    /\ log = {}
    /\ result = <<>>

SpecTwins == InitTwins /\ [][NextScan]_vars

\* get_all_tables on a page of one element that may be hidden or small
InitSizes ==
    /\ IdleOthers
    /\ IdleExtract
    /\ IdleImages
    /\ IdleTitle
    /\ \E sh \in SizeShapes : page = SizePage(sh)
    /\ sPc = "find"
    /\ driver = "open"
    /\ all_containers = <<>>
    /\ deduplicated_containers = <<>>
    /\ sorted_containers = <<>>
    /\ idx = 0
    /\ tables_info = <<>>
    /\ files = {}
    /\ log = {}
    /\ result = <<>>

SpecSizes == InitSizes /\ [][NextScan]_vars

----------------------------------------------------------------------------
(* One call of rows_have_similar_structure                                  *)

InitStructure ==
    /\ IdleExtract
    /\ IdleImages
    /\ IdleScan
    /\ IdleTitle
    /\ IdleApp
    /\ IdleCapture
    /\ fPc = "call"
    /\ fArgs \in [rows : StructRows, raised : BOOLEAN]
    /\ fRet = <<>>

CallStructure ==
    /\ fPc = "call"
    /\ fRet' = rows_have_similar_structure(fArgs.rows, fArgs.raised)
    /\ fPc' = "returned"
    /\ UNCHANGED <<fArgs, xVars, iVars, sVars, tVars, cVars, aVars>>

SpecStructure == InitStructure /\ [][CallStructure]_vars

----------------------------------------------------------------------------
(* One list item of extract_list_table_data                                 *)

InitListItem ==
    /\ IdleExtract
    /\ IdleImages
    /\ IdleScan
    /\ IdleTitle
    /\ IdleApp
    /\ IdleCapture
    /\ fPc = "call"
    /\ fArgs \in ListItems
    /\ fRet = <<>>

\* one pass of the loop of line 370; fRet holds rows
CallListItem ==
    /\ fPc = "call"
    /\ fRet' = ListItemRows(fArgs)
    /\ fPc' = "returned"
    /\ UNCHANGED <<fArgs, xVars, iVars, sVars, tVars, cVars, aVars>>

SpecListItem == InitListItem /\ [][CallListItem]_vars

----------------------------------------------------------------------------
(* One computation of the crop box                                          *)

InitCrop ==
    /\ IdleExtract
    /\ IdleImages
    /\ IdleScan
    /\ IdleTitle
    /\ IdleApp
    /\ IdleCapture
    /\ fPc = "call"
    /\ fArgs \in [location : [x : Coordinates, y : Coordinates],
                  size : [width : Extents, height : Extents],
                  width : ShotExtents, height : ShotExtents]
    /\ fRet = <<>>

CallCrop ==
    /\ fPc = "call"
    /\ fRet' = CropBox(fArgs.location, fArgs.size, fArgs.width, fArgs.height)
    /\ fPc' = "returned"
    /\ UNCHANGED <<fArgs, xVars, iVars, sVars, tVars, cVars, aVars>>

SpecCrop == InitCrop /\ [][CallCrop]_vars

----------------------------------------------------------------------------
(* One call of capture_element_screenshot                                   *)

InitCapture ==
    /\ IdleExtract
    /\ IdleImages
    /\ IdleScan
    /\ IdleTitle
    /\ IdleApp
    /\ IdleCall
    /\ cPc = "start"
    /\ cStyle \in StyleChains
    /\ cBefore = cStyle

\* lines 973-977: makedirs and scrollIntoView, either may raise
ScrollIntoView ==
    /\ cPc = "start"
    /\ \E raised \in BOOLEAN : cPc' = IF raised THEN "last_resort" ELSE "scrolled"
    /\ UNCHANGED <<cStyle, cBefore, xVars, iVars, sVars, tVars, fVars, aVars>>

\* lines 980-1000: the script; when the element is stale it raises before
\* it has written a style
SetStyles ==
    /\ cPc = "scrolled"
    /\ \E raised \in BOOLEAN :
          IF raised
          THEN cPc' = "last_resort" /\ UNCHANGED cStyle
          ELSE cPc' = "styled" /\ cStyle' = MakeVisible(cStyle)
    /\ UNCHANGED <<cBefore, xVars, iVars, sVars, tVars, fVars, aVars>>

\* lines 1004-1035: location, size and save_screenshot may raise; the crop
\* and the save of the cropped image may raise too
ShootAndCrop ==
    /\ cPc = "styled"
    /\ \E out \in {"saved", "crop_error", "raised"} :
          cPc' = CASE out = "saved" -> "true"
                   [] out = "crop_error" -> "fallback"
                   [] out = "raised" -> "last_resort"
    /\ UNCHANGED <<cStyle, cBefore, xVars, iVars, sVars, tVars, fVars, aVars>>

\* lines 1036-1041: element.screenshot in the handler of the crop
Fallback ==
    /\ cPc = "fallback"
    /\ \E raised \in BOOLEAN : cPc' = IF raised THEN "last_resort" ELSE "true"
    /\ UNCHANGED <<cStyle, cBefore, xVars, iVars, sVars, tVars, fVars, aVars>>

\* lines 1043-1051
LastResort ==
    /\ cPc = "last_resort"
    /\ \E raised \in BOOLEAN : cPc' = IF raised THEN "false" ELSE "true"
    /\ UNCHANGED <<cStyle, cBefore, xVars, iVars, sVars, tVars, fVars, aVars>>

NextCapture == ScrollIntoView \/ SetStyles \/ ShootAndCrop \/ Fallback \/ LastResort

SpecCapture == InitCapture /\ [][NextCapture]_vars

----------------------------------------------------------------------------
(* The session of the application: app.py                                   *)

\* lines 63-86: the state of a new session; the page shows a URL
InitApp ==
    /\ IdleExtract
    /\ IdleImages
    /\ IdleScan
    /\ IdleTitle
    /\ IdleCall
    /\ IdleCapture
    /\ aPc = "ready"
    /\ extraction_in_progress = FALSE
    /\ data_extracted = FALSE
    /\ extraction_method = "None"
    /\ aDone = <<>>

AppOthers == <<xVars, iVars, sVars, tVars, fVars, cVars>>

\* lines 379-401 and 521-523: the action button, enabled while no
\* extraction is in progress, on an Amazon product page or another page
ClickExtract ==
    /\ aPc = "ready"
    /\ ~extraction_in_progress
    /\ Len(aDone) < MaxExtractions
    /\ extraction_in_progress' = TRUE
    /\ data_extracted' = FALSE
    /\ \E is_amazon_product_page \in BOOLEAN :
          extraction_method' = IF is_amazon_product_page THEN "amazon" ELSE "general"
    /\ aPc' = "working"
    /\ UNCHANGED <<aDone, AppOthers>>

\* lines 411-514: amazon_tables returned status success; st.rerun() ends
\* the script run
AmazonSuccess ==
    /\ aPc = "working"
    /\ extraction_method = "amazon"
    /\ data_extracted' = TRUE
    /\ aDone' = Append(aDone, "amazon_success")
    /\ aPc' = "ready"
    /\ UNCHANGED <<extraction_in_progress, extraction_method, AppOthers>>

\* lines 515-520: amazon_tables returned another status; the script runs
\* on to its end
AmazonFailure ==
    /\ aPc = "working"
    /\ extraction_method = "amazon"
    /\ data_extracted' = FALSE
    /\ aDone' = Append(aDone, "amazon_failure")
    /\ aPc' = "ready"
    /\ UNCHANGED <<extraction_in_progress, extraction_method, AppOthers>>

\* lines 534-541: screenshot_tables returned no entry; st.stop()
NoTablesFound ==
    /\ aPc = "working"
    /\ extraction_method = "general"
    /\ extraction_in_progress' = FALSE
    /\ aDone' = Append(aDone, "no_tables")
    /\ aPc' = "ready"
    /\ UNCHANGED <<data_extracted, extraction_method, AppOthers>>

\* lines 543-709: the entries were processed, with or without a table kept
GeneralDone ==
    /\ aPc = "working"
    /\ extraction_method = "general"
    /\ \E kept \in BOOLEAN : data_extracted' = kept
    /\ extraction_in_progress' = FALSE
    /\ aDone' = Append(aDone, "general_done")
    /\ aPc' = "ready"
    /\ UNCHANGED <<extraction_method, AppOthers>>

\* lines 711-716: an exception in either workflow
ExtractionRaised ==
    /\ aPc = "working"
    /\ extraction_in_progress' = FALSE
    /\ aDone' = Append(aDone, "exception")
    /\ aPc' = "ready"
    /\ UNCHANGED <<data_extracted, extraction_method, AppOthers>>

\* lines 1006-1011: the button "Cancel Extraction"
CancelExtraction ==
    /\ aPc = "ready"
    /\ extraction_in_progress
    /\ extraction_in_progress' = FALSE
    /\ UNCHANGED <<aPc, data_extracted, extraction_method, aDone, AppOthers>>

\* lines 984-989 and 63-86: the button that deletes the session state,
\* shown with the results
StartOver ==
    /\ aPc = "ready"
    /\ data_extracted
    /\ extraction_in_progress' = FALSE
    /\ data_extracted' = FALSE
    /\ extraction_method' = "None"
    /\ UNCHANGED <<aPc, aDone, AppOthers>>

NextApp ==
    \/ ClickExtract
    \/ AmazonSuccess
    \/ AmazonFailure
    \/ NoTablesFound
    \/ GeneralDone
    \/ ExtractionRaised
    \/ CancelExtraction
    \/ StartOver

SpecApp == InitApp /\ [][NextApp]_vars

----------------------------------------------------------------------------
(* One run: screenshot_tables                                               *)

InitRun ==
    /\ IdleOthers
    /\ IdleExtract
    /\ IdleImages
    /\ IdleTitle
    /\ page \in RunPages
    /\ sPc = "setup"
    /\ driver = "none"
    /\ all_containers = <<>>
    /\ deduplicated_containers = <<>>
    /\ sorted_containers = <<>>
    /\ idx = 0
    /\ tables_info = <<>>
    /\ files = {}
    /\ log = {}
    /\ result = <<>>

Logged(n, event) == [n |-> n, event |-> event]

\* lines 735-739: without a driver the run returns the empty list
SetupDriver ==
    /\ sPc = "setup"
    /\ \E ok \in BOOLEAN :
          IF ok
          THEN driver' = "open" /\ sPc' = "load" /\ UNCHANGED log
          ELSE /\ sPc' = "returned"
               /\ log' = log \cup {Logged(0, "driver_failed")}
               /\ UNCHANGED driver
    /\ UNCHANGED <<page, all_containers, deduplicated_containers, sorted_containers,
                   idx, tables_info, files, result, xVars, iVars, tVars, oVars>>

\* lines 747-768: driver.get and driver.current_url may raise; the waits
\* and the banner handlers catch what they raise
LoadPage ==
    /\ sPc = "load"
    /\ \E ok \in BOOLEAN :
          IF ok
          THEN sPc' = "full_page" /\ UNCHANGED log
          ELSE sPc' = "failed_early" /\ log' = log \cup {Logged(0, "load_failed")}
    /\ UNCHANGED <<page, driver, all_containers, deduplicated_containers,
                   sorted_containers, idx, tables_info, files, result,
                   xVars, iVars, tVars, oVars>>

\* lines 771-776: os.makedirs may raise; capture_full_page_screenshot
\* returns True or False and its result is not read
FullPageShot ==
    /\ sPc = "full_page"
    /\ \E out \in {"dir_error", "saved", "not_saved"} :
          /\ sPc' = IF out = "dir_error" THEN "failed_late" ELSE "find"
          /\ files' = IF out = "saved" THEN files \cup {FullPageFile} ELSE files
          /\ log' = IF out = "saved" THEN log ELSE log \cup {Logged(0, out)}
    /\ UNCHANGED <<page, driver, all_containers, deduplicated_containers,
                   sorted_containers, idx, tables_info, result, xVars, iVars, tVars, oVars>>

\* one pass of the loop of lines 782-847
ProcessContainer ==
    /\ sPc = "scanned"
    /\ driver = "open"
    /\ idx < Len(sorted_containers)
    /\ LET c == sorted_containers[idx + 1]
           e == page[c.el]
       IN  \E env \in [conn : {"connected", "detached", "error"},
                       shown : {"shown", "hidden", "stale"},
                       hex1 : HexIds, hex2 : HexIds,
                       cap : CapturePaths,
                       other : RunOtherData,
                       imgs : {"ok", "error"},
                       outs : [1..CountImgs(AllTr(e.content)) -> Outcomes]] :
              /\ tables_info' = tables_info \o Iteration(c, e, idx + 1, RunUrl, env).entries
              /\ files' = files \cup Iteration(c, e, idx + 1, RunUrl, env).files
              /\ log' = log \cup {Logged(idx + 1, Iteration(c, e, idx + 1, RunUrl, env).event)}
              /\ idx' = NextCandidate(idx, Iteration(c, e, idx + 1, RunUrl, env).event,
                                      Len(sorted_containers))
    /\ UNCHANGED <<page, sPc, driver, all_containers, deduplicated_containers,
                   sorted_containers, result, xVars, iVars, tVars, oVars>>

\* lines 849-862 and 887-893: the placeholder for a run without a table,
\* the return, and the browser is closed
Finish ==
    /\ sPc = "scanned"
    /\ driver = "open"
    /\ idx = Len(sorted_containers)
    /\ tables_info' = WithPlaceholder(tables_info)
    /\ result' = tables_info'
    /\ driver' = "closed"
    /\ sPc' = "returned"
    /\ UNCHANGED <<page, all_containers, deduplicated_containers, sorted_containers,
                   idx, files, log, xVars, iVars, tVars, oVars>>

\* lines 864-893: the handler of the outer try.  safe_domain is bound at
\* line 768, so the handler of an earlier failure raises NameError and
\* returns the empty list; after a later failure it saves a screenshot and
\* returns the error entry, or the empty list when that fails too.  The
\* log tells whether driver.save_screenshot (line 872) was called
HandleFailure ==
    /\ sPc \in {"failed_early", "failed_late"}
    /\ \E saved \in BOOLEAN :
          IF sPc = "failed_late" /\ saved
          THEN result' = <<ErrorEntry>> /\ files' = files \cup {ErrorFile}
          ELSE result' = <<>> /\ UNCHANGED files
    /\ log' = IF sPc = "failed_late" THEN log \cup {Logged(0, "save_screenshot")} ELSE log
    /\ driver' = "closed"
    /\ sPc' = "returned"
    /\ UNCHANGED <<page, all_containers, deduplicated_containers, sorted_containers,
                   idx, tables_info, xVars, iVars, tVars, oVars>>

NextRun ==
    \/ SetupDriver
    \/ LoadPage
    \/ FullPageShot
    \/ FindCandidates
    \/ Deduplicate
    \/ SortCandidates
    \/ ProcessContainer
    \/ Finish
    \/ HandleFailure

SpecRun == InitRun /\ [][NextRun]_vars

----------------------------------------------------------------------------
(* Two extractions of one element of an unchanged page                      *)

InitTitle ==
    /\ IdleOthers
    /\ IdleExtract
    /\ IdleImages
    /\ IdleScan
    /\ tInfo \in TitleInfos
    /\ tTable \in RunTables
    /\ tRuns = <<>>

\* extract_table_data on the element: the title, then rows and frame
ExtractRun ==
    /\ Len(tRuns) < 2
    /\ \E hex \in HexIds :
          tRuns' = Append(tRuns,
                      extract_table_data("html_table", get_table_title(tInfo, hex),
                                         extract_html_table_data(tTable).headers,
                                         extract_html_table_data(tTable).rows,
                                         MarkupHasImg(tTable)))
    /\ UNCHANGED <<tInfo, tTable, xVars, iVars, sVars, oVars>>

NextTitle == ExtractRun

SpecTitle == InitTitle /\ [][NextTitle]_vars

----------------------------------------------------------------------------
(* Claims about row extraction and assembly (checked under SpecExtract)     *)

HasImageCell(rec) ==
    \E r \in DOMAIN rec.rows : \E c \in DOMAIN rec.rows[r] : rec.rows[r][c].k = "img"

\* C13: the record of a native table has has_images true if and only if at
\* least one cell of its rows is an image reference.
C13_HasImagesIffCell ==
    (xPc = "assembled" /\ xRec.ok /\ xType = "html_table") =>
        (xRec.has_images <=> HasImageCell(xRec))

\* the number of columns a cell is declared to span: N for colspan=N,
\* one for a cell without the attribute
DeclaredSpan(cell) == IF cell.colspan = "" THEN 1 ELSE IntOf(cell.colspan)

SpansDeclared(tr) ==
    \A i \in DOMAIN tr : tr[i].colspan = "" \/ tr[i].colspan \in {"1", "2", "3"}

RECURSIVE SpanSum(_, _)
SpanSum(tr, n) == IF n = 0 THEN 0 ELSE SpanSum(tr, n - 1) + DeclaredSpan(tr[n])

\* C5: in a native-table row a cell with colspan=N contributes N repeated
\* copies of its value to the flattened row, in the place of the cell; the
\* row (X colspan=3, Y) expands to X, X, X, Y.
C5_ColspanExpansion ==
    (xPc # "input" /\ xType = "html_table" /\ Len(xRows) = Len(xTable.body)) =>
        \A r \in DOMAIN xTable.body :
            LET tr == xTable.body[r] IN
            SpansDeclared(tr) =>
                /\ Len(xRows[r]) = SpanSum(tr, Len(tr))
                /\ \A i \in DOMAIN tr :
                       \A p \in (SpanSum(tr, i - 1) + 1)..SpanSum(tr, i) :
                           xRows[r][p] = CellValue(tr[i])
                /\ tr = <<TdSpan("X", "3"), Td("Y")>> =>
                       xRows[r] = <<TextCell("X"), TextCell("X"), TextCell("X"),
                                    TextCell("Y")>>

\* the row (X colspan=3, Y) has been extracted
C5_Witness ==
    /\ xPc = "extracted"
    /\ xType = "html_table"
    /\ Len(xRows) = Len(xTable.body)
    /\ \E r \in DOMAIN xTable.body :
          /\ xTable.body[r] = <<TdSpan("X", "3"), Td("Y")>>
          /\ Len(xRows[r]) = 4

\* C30: every td/th of a row of a native table contributes at least one
\* value to the flattened row, whatever its colspan attribute: a missing or
\* non-numeric colspan counts as 1, and a colspan of 0 or below never makes
\* the cell disappear.
C30_EveryCellContributes ==
    (xPc # "input" /\ xType = "html_table" /\ Len(xRows) = Len(xTable.body)) =>
        \A r \in DOMAIN xTable.body :
            LET tr == xTable.body[r] IN
            /\ Len(xRows[r]) >= Len(tr)
            /\ (\A i \in DOMAIN tr : ~IsIntLiteral(tr[i].colspan)) => Len(xRows[r]) = Len(tr)

----------------------------------------------------------------------------
(* Claims about the image pipeline (checked under SpecImages)               *)

\* the src attribute, in the page, of the image of cell (r, c)
DomSrc(r, c) == iMarkup.body[r][c].src

IsRelativeRef(s) == s # <<>> /\ s[1] # "/" /\ ~IsSchemeToken(s[1])

\* C6: before the fetch a protocol-relative image address gets an explicit
\* scheme, a root-relative or relative one is joined against the base
\* address of the page (root-relative /img/a.png on https://example.com
\* becomes https://example.com/img/a.png) and an absolute http(s) address
\* is fetched unchanged; every image cell is fetched.
C6_UrlResolution ==
    (iPc \in {"collect", "done"} /\ Len(iData.rows) = Len(iMarkup.body)) =>
        /\ Len(iLocs) = Cardinality(ImgSrcCells(iMarkup.body))
        /\ \A n \in DOMAIN iLocs :
              LET s == DomSrc(iLocs[n].i, iLocs[n].col)
                  base == BaseUrl(iUrl)
                  fetched == FetchUrl(iFutures[n].url)
              IN  /\ StartsWith(s, SlashSlash) => fetched = <<"https:">> \o s
                  /\ (StartsWith(s, <<"/">>) /\ ~StartsWith(s, SlashSlash)) =>
                         fetched = base \o s
                  /\ (StartsWith(s, HttpPrefix) \/ StartsWith(s, HttpsPrefix)) =>
                         fetched = s
                  /\ IsRelativeRef(s) => StartsWith(fetched, base \o <<"/">>)
                  /\ s = UrlRel => fetched = base \o <<"/">> \o s
                  /\ (s = UrlRootRel /\ base = <<"https:", "/", "/", "example.com">>) =>
                         fetched = <<"https:", "/", "/", "example.com",
                                     "/", "img", "/", "a.png">>

\* the download of /img/a.png of a page of https://example.com has started
C6_Witness ==
    /\ iPc = "collect"
    /\ Len(iData.rows) = Len(iMarkup.body)
    /\ BaseUrl(iUrl) = <<"https:", "/", "/", "example.com">>
    /\ \E n \in DOMAIN iLocs :
          /\ DomSrc(iLocs[n].i, iLocs[n].col) = UrlRootRel
          /\ iFutures[n].st = "running"

FailureReasons == {"status", "timeout", "error"}

\* C10: after the pipeline has run on a table with images, every cell that
\* held an image reference holds a local path (the fetch succeeded) or a
\* recorded failure reason (bad status, timeout or exception); no image cell
\* is dropped or left unresolved, and no outcome of a fetch raises out of
\* the pipeline.
C10_ImagesResolved ==
    /\ iPc # "raised"
    /\ (iPc = "done" /\ ImageCells(FrameOf(iData)) # <<>>) =>
          /\ iLocal.ok
          /\ iLocal.columns = iData.columns
          /\ Len(iLocal.rows) = Len(iData.rows)
          /\ \A r \in DOMAIN iData.rows :
                /\ Len(iLocal.rows[r]) = Len(iData.rows[r])
                /\ \A c \in DOMAIN iData.rows[r] :
                      iData.rows[r][c].k = "img" =>
                          \/ /\ iLocal.rows[r][c].k = "local"
                             /\ iLocal.rows[r][c].path # NoPath
                          \/ /\ iLocal.rows[r][c].k = "failed"
                             /\ iLocal.rows[r][c].v \in FailureReasons

\* the pipeline has returned a frame with a downloaded and a failed image
C10_Witness ==
    /\ iPc = "done"
    /\ iLocal.ok
    /\ \E r1, r2 \in DOMAIN iLocal.rows :
          \E c1 \in DOMAIN iLocal.rows[r1], c2 \in DOMAIN iLocal.rows[r2] :
              /\ iLocal.rows[r1][c1].k = "local"
              /\ iLocal.rows[r2][c2].k = "failed"
              /\ iLocal.rows[r2][c2].v = "timeout"

\* the address of the download that belongs to the n-th image cell of the
\* original frame, cells counted row by row
OwnUrl(n) ==
    ResolveImgUrl(
        iData.rows[ImageCells(FrameOf(iData))[n].i][ImageCells(FrameOf(iData))[n].col].src,
        BaseUrl(iUrl))

\* C11: whatever order the downloads of a table finished in, after the
\* pipeline has returned the n-th image cell holds the outcome of the
\* download of its own address: the file of that download, or its address
\* with the reason that download failed for.
C11_ByPosition ==
    (iPc = "done" /\ iLocs # <<>>) =>
        /\ Len(iFutures) = Len(ImageCells(FrameOf(iData)))
        /\ \A n \in DOMAIN iFutures :
              LET rc == ImageCells(FrameOf(iData))[n] IN
              /\ iFutures[n].url = OwnUrl(n)
              /\ iFutures[n].file.index = n
              /\ iLocal.rows[rc.i][rc.col] =
                     IF iFutures[n].ok THEN LocalCell(iFutures[n].file)
                     ELSE FailedCell(OwnUrl(n), iFutures[n].reason)

\* two downloads of different addresses, the second finished first, one
\* failed and one succeeded, and the pipeline has returned
C11_Witness ==
    /\ iPc = "done"
    /\ Len(iFutures) = 2
    /\ iArrived = <<2, 1>>
    /\ iFutures[1].url # iFutures[2].url
    /\ iFutures[1].ok /\ ~iFutures[2].ok
    /\ iLocal.ok

\* C12: while and after the pipeline runs, the frame of the record it was
\* called with has the headers, the shape and every cell it had before the
\* call, whatever the downloads end with; the localized frame is a frame
\* of its own.
C12_OriginalUntouched ==
    iPc \in {"collect", "done", "raised"} =>
        /\ iData = RecordOf(iMarkup, "Prices 2023")
        /\ (iPc = "done" /\ iLocs # <<>>) =>
              /\ iLocal.ok
              /\ iLocal.rows # iData.rows

\* the pipeline has returned a localized frame with a failed and a
\* downloaded image while the record still holds its image references
C12_Witness ==
    /\ iPc = "done"
    /\ iLocal.ok
    /\ Len(iFutures) = 2
    /\ iFutures[2].ok /\ ~iFutures[1].ok
    /\ \A n \in DOMAIN iLocs : iData.rows[iLocs[n].i][iLocs[n].col].k = "img"

\* the test of line 1678
HeadersMatch == xHeaders # <<>> /\ Len(xHeaders) = Len(xRows[1])

\* C23: the record takes the extracted headers when there are as many as
\* the first row has cells, and the headers "Column 1".."Column N", N the
\* length of the longest row, otherwise; in both cases every cell a row got
\* beyond its extracted cells is empty text.
C23_HeadersAndPadding ==
    (xPc = "assembled" /\ xRec.ok) =>
        /\ HeadersMatch => Range(xRec.columns) \subseteq Range(xHeaders)
        /\ ~HeadersMatch => xRec.columns = GenericHeaders(MaxRowLen(xRows))
        /\ (Len(xRec.rows) = Len(xRows) /\ Len(xRec.columns) = MaxRowLen(xRows)) =>
              \A r \in DOMAIN xRows :
                  \A c \in (Len(xRows[r]) + 1)..MaxRowLen(xRows) :
                      xRec.rows[r][c] = TextCell("")

\* C24: whenever one of the extracted rows has two or more cells,
\* extract_table_data returns a table record, whatever the number of
\* headers and the lengths of the rows.
C24_AlwaysARecord ==
    (xPc = "assembled" /\ \E r \in DOMAIN xRows : Len(xRows[r]) >= 2) => xRec.ok

----------------------------------------------------------------------------
(* Claims about scanning and deduplication (checked under SpecScan)         *)

Deduplicated == sPc \in {"sort", "scanned"}

Nested(c1, c2) ==
    IsAncestorOrSelf(page, c1.el, c2.el) \/ IsAncestorOrSelf(page, c2.el, c1.el)

\* C2: when the scanner found two candidates, neither inside the other,
\* whose boxes overlap by more than 70% of the smaller box, the
\* deduplicated list holds exactly one of them, and the other one is not
\* better (higher confidence, or the same confidence and more rows).
C2_OverlapOneSurvivor ==
    (/\ Deduplicated
     /\ Len(all_containers) = 2
     /\ ~Nested(all_containers[1], all_containers[2])
     /\ OverlapsMuch(page[all_containers[1].el].rect, page[all_containers[2].el].rect))
    => /\ Len(deduplicated_containers) = 1
       /\ deduplicated_containers[1] \in Range(all_containers)
       /\ \A n \in 1..2 : ~Better(all_containers[n], deduplicated_containers[1])

\* C3: when the scanner found two candidates and the element of one lies
\* inside the element of the other, the deduplicated list holds exactly one
\* of the two, whatever their structural types.
C3_NestedOneSurvivor ==
    (/\ Deduplicated
     /\ Len(all_containers) = 2
     /\ Nested(all_containers[1], all_containers[2]))
    => /\ Len(deduplicated_containers) = 1
       /\ deduplicated_containers[1] \in Range(all_containers)

\* (x, y) of c1 is not behind (x, y) of c2, coordinates taken as numbers
PositionLeq(c1, c2) == c1.x < c2.x \/ (c1.x = c2.x /\ c1.y <= c2.y)

\* C14: the candidates a run works through, and so its result, are ordered
\* by confidence tier (high, medium, low) and within a tier by the
\* position of the region, its coordinates taken as numbers.
C14_OrderedByTierAndPosition ==
    sPc = "scanned" =>
        \A i, j \in DOMAIN sorted_containers :
            i < j =>
                /\ ConfidenceRank(sorted_containers[i]) <= ConfidenceRank(sorted_containers[j])
                /\ ConfidenceRank(sorted_containers[i]) = ConfidenceRank(sorted_containers[j])
                      => PositionLeq(sorted_containers[i], sorted_containers[j])

\* C19: the list deduplicate_tables returns holds no candidate twice and
\* no two candidates of the same region (the same element, one element
\* inside the other, or boxes that overlap by more than 70% of the smaller
\* one), whatever the types of the candidates found.
C19_NoDuplicateRegion ==
    Deduplicated =>
        \A m, n \in DOMAIN deduplicated_containers :
            m # n =>
                /\ deduplicated_containers[m] # deduplicated_containers[n]
                /\ ~are_same(page, deduplicated_containers[m].el,
                             deduplicated_containers[n].el)

----------------------------------------------------------------------------
(* Claims about three candidates over each other (checked under SpecTriple) *)

MutuallyColliding(cs) ==
    \A m, n \in DOMAIN cs : are_same(page, cs[m].el, cs[n].el)

\* C18: of three candidates each two of which collide, deduplicate_tables
\* keeps exactly one, and none of the three is better than it (higher
\* tier, or the same tier and more rows), in whatever order they come.
C18_BestOfGroup ==
    (/\ sPc \in {"sort", "scanned"}
     /\ Len(all_containers) = 3
     /\ MutuallyColliding(all_containers))
    => /\ Len(deduplicated_containers) = 1
       /\ \A n \in DOMAIN all_containers :
             ~Better(all_containers[n], deduplicated_containers[1])

----------------------------------------------------------------------------
(* Claims about two elements side by side (checked under SpecTwins)         *)

\* C20: the scanner takes no element for one it has processed before: each
\* of two distinct elements that passes the tests of its group becomes a
\* candidate, also when the markup of the two has the same length.
C20_DistinctElementsKept ==
    sPc # "find" =>
        \A el \in DOMAIN page :
            Qualifies(page, el, <<>>)
            => \E n \in DOMAIN all_containers : all_containers[n].el = el

----------------------------------------------------------------------------
(* Claims about one element, hidden or small (checked under SpecSizes)      *)

\* the smallest box any group accepts (lines 1092-1093)
MinWidth == 50
MinHeight == 30

\* C21: no candidate of the scanner's output, of whatever group, is an
\* element that is not displayed or one smaller than the minimum size.
C21_VisibleAndSized ==
    sPc # "find" =>
        \A n \in DOMAIN all_containers :
            /\ page[all_containers[n].el].displayed
            /\ page[all_containers[n].el].rect.w >= MinWidth
            /\ page[all_containers[n].el].rect.h >= MinHeight

----------------------------------------------------------------------------
(* Claims about the homogeneity check (checked under SpecStructure)         *)

\* the first at most 5 of the rows
FirstFive(rows) == SubSeq(rows, 1, Min2(5, Len(rows)))

\* a count that at least 60% of the rows have, or at most two counts in all
Homogeneous(counts) ==
    \/ \E v \in Range(counts) :
          10 * Cardinality({k \in DOMAIN counts : counts[k] = v}) >= 6 * Len(counts)
    \/ Cardinality(Range(counts)) <= 2

----------------------------------------------------------------------------
(* Claims about region capture (checked under SpecCapture)                  *)

\* C25: when capture_element_screenshot has returned, with True or with
\* False, the element and its ancestors have the styles they had when the
\* call began.
C25_StylesRestored ==
    cPc \in {"true", "false"} => cStyle = cBefore

----------------------------------------------------------------------------
(* Claims about the crop box (checked under SpecCrop)                       *)

\* C26: for every location and size of the element and every width W and
\* height H of the screenshot the crop box satisfies
\* 0 <= left <= right <= W and 0 <= top <= bottom <= H.
C26_CropInsideShot ==
    fPc = "returned" =>
        /\ 0 <= fRet.left /\ fRet.left <= fRet.right /\ fRet.right <= fArgs.width
        /\ 0 <= fRet.top /\ fRet.top <= fRet.bottom /\ fRet.bottom <= fArgs.height

----------------------------------------------------------------------------
(* Claims about list items (checked under SpecListItem)                     *)

HasDelimiter(text) == \E k \in DOMAIN text : text[k] \in Delimiters

\* C27: a list item without nested cells whose text holds a delimiter
\* gives a row of exactly 2 cells, label and value, however many
\* delimiters the text holds.
C27_LabelValuePair ==
    (/\ fPc = "returned"
     /\ fArgs.children <= 1
     /\ HasDelimiter(Strip(fArgs.text))
     /\ fRet # <<>>)
    => Len(fRet[1]) = 2

----------------------------------------------------------------------------
(* Claims about the session of the application (checked under SpecApp)      *)

\* C28: once the work of an extraction is over, however it ended (Amazon
\* success or failure, general success, no tables, exception),
\* extraction_in_progress is false: the flag is true only while the
\* extraction works.
C28_FlagCleared ==
    extraction_in_progress => aPc = "working"

----------------------------------------------------------------------------
(* Claims about a run (checked under SpecRun)                               *)

\* what the browser, the file system and the network can let fail in a run
SessionFailures == {"driver_failed", "load_failed", "dir_error"}

CandidateFailures ==
    {"detached", "error", "hidden", "stale", "capture_failed", "images_failed"}

Events == {l.event : l \in log}

\* the header cells and the data rows of a native table by position: the
\* row of the thead, or else the first row, holds the header cells
HeaderCellCount(t) == IF t.thead # <<>> THEN Len(t.thead[1]) ELSE Len(t.body[1])

DataRowCount(t) == IF t.thead # <<>> THEN Len(t.body) ELSE Len(t.body) - 1

\* one visible native table with 3 header cells, 5 data rows, no image
OneNativeTable ==
    /\ Len(page) = 1
    /\ page[1].kind = "table"
    /\ page[1].displayed
    /\ page[1].content.body # <<>>
    /\ HeaderCellCount(page[1].content) = 3
    /\ DataRowCount(page[1].content) = 5
    /\ ~MarkupHasImg(page[1].content)

\* C4: a run on a page with one visible native table of 3 header cells and
\* 5 data rows without images, in which nothing failed, returns exactly one
\* table record, with 3 headers, 5 rows and has_images false.
C4_OneNativeTable ==
    (/\ sPc = "returned"
     /\ OneNativeTable
     /\ Events \cap (SessionFailures \cup CandidateFailures \cup {"not_saved"}) = {})
    => /\ Len(result) = 1
       /\ result[1].kind = "table"
       /\ Len(result[1].columns) = 3
       /\ Len(result[1].rows) = 5
       /\ ~result[1].has_images

\* the run went through the loop and returned at line 862
RunCompleted == sPc = "returned" /\ Events \cap SessionFailures = {}

NoTableRecord == \A k \in DOMAIN result : result[k].kind # "table"

RecordAt(n) ==
    RecordOf(page[sorted_containers[n].el].content, "")

\* C9: when the capture of a native table failed on every path and the
\* table has data that passes the size filter, the run returns the table's
\* columns and rows in a table record without a screenshot.
C9_DataWithoutArtifact ==
    \A n \in DOMAIN sorted_containers :
        (/\ RunCompleted
         /\ Logged(n, "capture_failed") \in log
         /\ sorted_containers[n].type = "html_table"
         /\ RecordAt(n).ok
         /\ ~TooSmall(RecordAt(n), sorted_containers[n].confidence))
        => \E k \in DOMAIN result :
              /\ result[k].kind = "table"
              /\ result[k].columns = RecordAt(n).columns
              /\ result[k].rows = RecordAt(n).rows
              /\ result[k].screenshot = NoFile

\* the passes of the loop that ended with a record
Extracted == {n \in DOMAIN sorted_containers : Logged(n, "extracted") \in log}

TableRecords == SelectSeq(result, LAMBDA r : r.kind = "table")

\* C15: whatever failed for a candidate (element gone or hidden, capture,
\* extraction or image processing failed), every candidate of the list got
\* its pass, and the run returns the records of all the passes that ended
\* with one, in the order of the passes.
C15_CandidatesIsolated ==
    RunCompleted =>
        /\ \A n \in DOMAIN sorted_containers : \E l \in log : l.n = n
        /\ Len(TableRecords) = Cardinality(Extracted)
        /\ \A n \in Extracted :
              sorted_containers[n].type = "html_table"
              => \E k \in DOMAIN TableRecords :
                    /\ TableRecords[k].columns = RecordAt(n).columns
                    /\ TableRecords[k].rows = RecordAt(n).rows

\* the first of two candidates failed, the second one was extracted and
\* the run returned its record
C15_Witness ==
    /\ RunCompleted
    /\ Len(sorted_containers) = 2
    /\ \E l \in log : l.n = 1 /\ l.event \in CandidateFailures
    /\ Logged(2, "extracted") \in log
    /\ Len(result) = 1
    /\ result[1].kind = "table"
    /\ result[1].rows = RecordAt(2).rows

\* C16: a run whose session failed after the driver was created, the load
\* of the page included, has called for the diagnostic screenshot by the
\* time it returns.
C16_ScreenshotAttempted ==
    (sPc = "returned" /\ Events \cap {"load_failed", "dir_error"} # {})
    => "save_screenshot" \in Events

\* the cells of the result that hold the local path of a downloaded image
LocalCells ==
    {p \in (DOMAIN result) \X (1..MaxBodyRows + 1) \X (1..3) :
        /\ p[2] \in DOMAIN result[p[1]].local
        /\ p[3] \in DOMAIN result[p[1]].local[p[2]]
        /\ result[p[1]].local[p[2]][p[3]].k = "local"}

\* C29: no two cells of the tables of one run whose downloads succeeded
\* hold the same local file path.
C29_DistinctLocalPaths ==
    sPc = "returned" =>
        \A p, q \in LocalCells :
            p # q => result[p[1]].local[p[2]][p[3]].path # result[q[1]].local[q[2]][q[3]].path

----------------------------------------------------------------------------
(* Claims about repeated extraction (checked under SpecTitle)               *)

\* C8: two extractions of the same element of an unchanged page yield the
\* same title, the same headers and the same number of rows.
C8_SameTwice ==
    Len(tRuns) = 2
    => /\ tRuns[1].ok = tRuns[2].ok
       /\ tRuns[1].title = tRuns[2].title
       /\ tRuns[1].columns = tRuns[2].columns
       /\ Len(tRuns[1].rows) = Len(tRuns[2].rows)

\* C17: the resolver goes on to its next step whenever a step yields empty
\* text, so the title of every record is non-empty text, also for an
\* element whose caption or preceding heading is there but empty.
C17_TitleNonEmpty ==
    \A k \in DOMAIN tRuns : tRuns[k].ok => tRuns[k].title # ""

====
